---- MODULE Spec2Model ----
(***************************************************************************)
(* Listing search & reconciliation engine of zipo-backend                  *)
(* (src/src/routes/cars.ts, src/src/routes/user.ts, src/src/routes/host.ts)*)
(*                                                                         *)
(* JavaScript values are records [k, s, n] of one shape, so that any two   *)
(* of them can be compared: k is the type tag, s the characters of a       *)
(* string (a sequence of one-character strings), n the value of a number.  *)
(* Numbers are integers.                                                   *)
(***************************************************************************)
EXTENDS Integers, Sequences, FiniteSets, TLC

VARIABLES cars, now, req, resp

vars == <<cars, now, req, resp>>

----------------------------------------------------------------------------
(* JavaScript values *)

Undef == [k |-> "undefined", s |-> <<>>, n |-> 0]
Null == [k |-> "null", s |-> <<>>, n |-> 0]
NaN == [k |-> "nan", s |-> <<>>, n |-> 0]
Str(s) == [k |-> "string", s |-> s, n |-> 0]
Num(n) == [k |-> "number", s |-> <<>>, n |-> n]

\* v == null (loose equality): undefined or null
IsNullish(v) == v.k \in {"undefined", "null"}

\* a ?? b
Coalesce(a, b) == IF IsNullish(a) THEN b ELSE a

\* undefined -> null, as `x ?? null` in a parameter list
OrNull(v) == IF IsNullish(v) THEN Null ELSE v

Max(a, b) == IF a >= b THEN a ELSE b
Min(a, b) == IF a <= b THEN a ELSE b

----------------------------------------------------------------------------
(* Strings: sequences of characters *)

Digits == {"0", "1", "2", "3", "4", "5", "6", "7", "8", "9"}

DigitVal(c) ==
  CASE c = "0" -> 0 [] c = "1" -> 1 [] c = "2" -> 2 [] c = "3" -> 3
    [] c = "4" -> 4 [] c = "5" -> 5 [] c = "6" -> 6 [] c = "7" -> 7
    [] c = "8" -> 8 [] c = "9" -> 9

DigitChar(d) ==
  CASE d = 0 -> "0" [] d = 1 -> "1" [] d = 2 -> "2" [] d = 3 -> "3"
    [] d = 4 -> "4" [] d = 5 -> "5" [] d = 6 -> "6" [] d = 7 -> "7"
    [] d = 8 -> "8" [] d = 9 -> "9"

Lowers ==
  <<"a", "b", "c", "d", "e", "f", "g", "h", "i", "j", "k", "l", "m",
    "n", "o", "p", "q", "r", "s", "t", "u", "v", "w", "x", "y", "z">>
Uppers ==
  <<"A", "B", "C", "D", "E", "F", "G", "H", "I", "J", "K", "L", "M",
    "N", "O", "P", "Q", "R", "S", "T", "U", "V", "W", "X", "Y", "Z">>

UpperChar(c) ==
  IF \E i \in 1..Len(Lowers) : Lowers[i] = c
  THEN Uppers[CHOOSE i \in 1..Len(Lowers) : Lowers[i] = c] ELSE c

LowerChar(c) ==
  IF \E i \in 1..Len(Uppers) : Uppers[i] = c
  THEN Lowers[CHOOSE i \in 1..Len(Uppers) : Uppers[i] = c] ELSE c

\* String.prototype.toUpperCase; SQL LOWER
toUpperCase(s) == [i \in 1..Len(s) |-> UpperChar(s[i])]
LOWER(s) == [i \in 1..Len(s) |-> LowerChar(s[i])]

RECURSIVE TrimLeft(_)
TrimLeft(s) ==
  IF s # <<>> /\ Head(s) = " " THEN TrimLeft(Tail(s)) ELSE s

RECURSIVE TrimRight(_)
TrimRight(s) ==
  IF s # <<>> /\ s[Len(s)] = " " THEN TrimRight(SubSeq(s, 1, Len(s) - 1)) ELSE s

\* String.prototype.trim
trim(s) == TrimRight(TrimLeft(s))

RECURSIVE NatToChars(_)
NatToChars(n) ==
  IF n < 10 THEN <<DigitChar(n)>>
  ELSE Append(NatToChars(n \div 10), DigitChar(n % 10))

\* String(v)
String(v) ==
  CASE v.k = "string" -> v.s
    [] v.k = "number" ->
         IF v.n < 0 THEN <<"-">> \o NatToChars(0 - v.n) ELSE NatToChars(v.n)
    [] v.k = "null" -> <<"n", "u", "l", "l">>
    [] v.k = "nan" -> <<"N", "a", "N">>
    [] OTHER -> <<"u", "n", "d", "e", "f", "i", "n", "e", "d">>

RECURSIVE DigitsToNat(_)
DigitsToNat(s) ==
  IF s = <<>> THEN 0
  ELSE 10 * DigitsToNat(SubSeq(s, 1, Len(s) - 1)) + DigitVal(s[Len(s)])

AllDigits(s) == s # <<>> /\ \A i \in 1..Len(s) : s[i] \in Digits

\* Number(v) for a string: blank is 0, an optionally signed run of digits is
\* its value, anything else is NaN.
StringToNumber(s) ==
  LET t == trim(s) IN
  IF t = <<>> THEN Num(0)
  ELSE IF AllDigits(t) THEN Num(DigitsToNat(t))
  ELSE IF Head(t) = "-" /\ AllDigits(Tail(t)) THEN Num(0 - DigitsToNat(Tail(t)))
  ELSE NaN

\* Number(v)
Number(v) ==
  CASE v.k = "number" -> v
    [] v.k = "string" -> StringToNumber(v.s)
    [] v.k = "null" -> Num(0)
    [] v.k = "boolean" -> Num(v.n)
    [] OTHER -> NaN

----------------------------------------------------------------------------
(* Helpers of cars.ts *)

\* clamp without its bounds
unclamped(n, lo, hi) == n

clamp(n, min, max) == Max(min, Min(max, n))

normalizeStr(v) ==
  IF IsNullish(v) THEN Undef
  ELSE LET s == trim(String(v)) IN IF Len(s) > 0 THEN Str(s) ELSE Undef

\* parseNumber without the Number.isFinite test on text
parseNumberUnchecked(v) == IF IsNullish(v) THEN Undef ELSE Number(v)

parseNumber(v) ==
  IF IsNullish(v) THEN Undef
  ELSE IF v.k = "number" THEN v
  ELSE IF v.k = "string" THEN
    LET s == trim(v.s) IN
    IF s = <<>> THEN Undef
    ELSE LET n == StringToNumber(s) IN IF n.k = "number" THEN n ELSE Undef
  ELSE Undef

\* Math.trunc is the identity on the integers of the model
parseIntLike(v) == parseNumber(v)

parseLat(v) ==
  LET n == parseNumber(v) IN
  IF IsNullish(n) THEN Undef
  ELSE IF n.n < -90 \/ n.n > 90 THEN Undef ELSE n

parseLng(v) ==
  LET n == parseNumber(v) IN
  IF IsNullish(n) THEN Undef
  ELSE IF n.n < -180 \/ n.n > 180 THEN Undef ELSE n

isPlainObject(v) == v.k = "object"

pickString(v) ==
  IF v.k # "string" THEN Null
  ELSE LET s == trim(v.s) IN IF Len(s) > 0 THEN Str(s) ELSE Null

pickInt(v) ==
  LET n == Number(v) IN IF n.k # "number" THEN Null ELSE n

----------------------------------------------------------------------------
(* Read path: the filter (CarsListQuery / CarsMapQuery) and buildWhere *)

QueryKeys ==
  {"country", "city", "area", "type", "transmission", "fuel", "seats",
   "yearMin", "yearMax", "minPrice", "maxPrice", "hasImage", "status", "q",
   "sort", "limit", "offset",
   "minLat", "maxLat", "minLng", "maxLng", "lat", "lng", "radiusKm"}

EmptyQuery == [key \in QueryKeys |-> Undef]

\* where.push(sql) with no placeholder
PushLit(b, sql) ==
  [b EXCEPT !.where = Append(@, [sql |-> sql, ph |-> <<>>])]

\* where.push(`... $${i++}`); params.push(v)
PushParam(b, sql, v) ==
  [where |-> Append(b.where, [sql |-> sql, ph |-> <<b.i>>]),
   params |-> Append(b.params, v),
   i |-> b.i + 1]

\* `%${s}%`
LikePattern(v) == Str(<<"%">> \o v.s \o <<"%">>)

\* swapInverted without its swap
keepInverted(min, max) == <<min, max>>

\* if (min != null && max != null && min > max) [min, max] = [max, min]
swapInverted(min, max) ==
  IF ~IsNullish(min) /\ ~IsNullish(max) /\ min.n > max.n
  THEN <<max, min>> ELSE <<min, max>>

\* One `if (on) { where.push(sql); params.push(...vals) }` of a builder: the
\* j-th placeholder of sql names the parameter i + ph[j]
Clause(on, sql, vals, ph) == [on |-> on, sql |-> sql, vals |-> vals, ph |-> ph]

\* A clause with no placeholder
Lit(on, sql) == Clause(on, sql, <<>>, <<>>)

\* Par with its clause pushed for short values only
ParShort(v, sql, p) ==
  Clause(~IsNullish(v) /\ Len(String(v)) < 3, sql, <<p>>, <<0>>)

\* Par with its clause never pushed
ParDropped(v, sql, p) == Clause(FALSE, sql, <<p>>, <<0>>)

\* if (v) { where.push(`... $${i++}`); params.push(p) }
Par(v, sql, p) == Clause(~IsNullish(v), sql, <<p>>, <<0>>)

\* Push with the placeholders numbered from $1 in every clause
PushFromOne(b, c) ==
  [where |-> Append(b.where, [sql |-> c.sql, ph |-> [j \in DOMAIN c.ph |-> 1 + c.ph[j]]]),
   params |-> b.params \o c.vals,
   i |-> b.i + Len(c.vals)]

\* where.push(...); params.push(...); i advances past the pushed parameters
Push(b, c) ==
  [where |-> Append(b.where, [sql |-> c.sql, ph |-> [j \in DOMAIN c.ph |-> b.i + c.ph[j]]]),
   params |-> b.params \o c.vals,
   i |-> b.i + Len(c.vals)]

\* The statements of a builder, run in order
RECURSIVE Emit(_, _)
Emit(clauses, b) ==
  IF clauses = <<>> THEN b
  ELSE Emit(Tail(clauses), IF Head(clauses).on THEN Push(b, Head(clauses)) ELSE b)

IfParam(b, v, sql, p) == IF IsNullish(v) THEN b ELSE PushParam(b, sql, p)

buildWhere(q) ==
  LET country == normalizeStr(q.country)
      city == normalizeStr(q.city)
      area == normalizeStr(q.area)
      type == normalizeStr(q.type)
      transmission == normalizeStr(q.transmission)
      fuel == normalizeStr(q.fuel)
      status == normalizeStr(q.status)
      seats == parseIntLike(q.seats)
      years == swapInverted(parseIntLike(q.yearMin), parseIntLike(q.yearMax))
      prices == swapInverted(parseNumber(q.minPrice), parseNumber(q.maxPrice))
      term == normalizeStr(q.q)
      b == Emit(<<Lit(TRUE, "deleted_at IS NULL"),
                  Lit(normalizeStr(q.status) = Undef, "status = 'active'"),
                  Par(country, "country_code = $", country),
                  Par(city, "LOWER(city) LIKE LOWER($)", LikePattern(city)),
                  Par(area, "LOWER(COALESCE(area,'')) LIKE LOWER($)", LikePattern(area)),
                  Par(type, "vehicle_type = $", type),
                  Par(transmission, "transmission = $", transmission),
                  Par(fuel, "fuel_type = $", fuel),
                  Par(status, "status = $", status),
                  Par(seats, "seats = $", seats),
                  Par(years[1], "year >= $", years[1]),
                  Par(years[2], "year <= $", years[2]),
                  Par(prices[1], "price_per_day >= $", prices[1]),
                  Par(prices[2], "price_per_day <= $", prices[2]),
                  Lit(q.hasImage = Str(<<"t", "r", "u", "e">>),
                      "has_image = true AND image_public = true"),
                  Lit(q.hasImage = Str(<<"f", "a", "l", "s", "e">>), "has_image = false"),
                  Clause(~IsNullish(term), "(title|make|model|city|area LIKE LOWER($))",
                         <<LikePattern(term)>>, <<0, 0, 0, 0, 0>>)>>,
                [where |-> <<>>, params |-> <<>>, i |-> 1])
  IN [where |-> b.where, params |-> b.params]

\* Number(x ?? dflt) || dflt
NumberOr(v, dflt) ==
  LET n == Number(Coalesce(v, Num(dflt))) IN
  IF n.k # "number" \/ n.n = 0 THEN dflt ELSE n.n

\* clamp(Number(q.limit ?? dflt) || dflt, 1, ceiling)
pageLimit(q, dflt, ceiling) == clamp(NumberOr(q.limit, dflt), 1, ceiling)

\* Math.max(Number(q.offset ?? 0) || 0, 0)
pageOffset(q) == Max(NumberOr(q.offset, 0), 0)

\* buildOrder with every key sorted as newest
newestOrder(sort) == <<"created_at DESC">>

\* buildOrder: the ORDER BY terms, most significant first
buildOrder(sort) ==
  CASE sort = Str(<<"p", "r", "i", "c", "e", "_", "a", "s", "c">>) ->
         <<"price_per_day ASC NULLS LAST", "created_at DESC">>
    [] sort = Str(<<"p", "r", "i", "c", "e", "_", "d", "e", "s", "c">>) ->
         <<"price_per_day DESC NULLS LAST", "created_at DESC">>
    [] sort = Str(<<"r", "a", "t", "i", "n", "g", "_", "d", "e", "s", "c">>) ->
         <<"COALESCE(rating_avg, rating) DESC NULLS LAST", "created_at DESC">>
    [] sort = Str(<<"n", "e", "w", "e", "s", "t">>) ->
         <<"created_at DESC">>
    [] OTHER ->
         <<"is_popular DESC", "COALESCE(rating_avg, rating) DESC NULLS LAST",
           "created_at DESC">>

----------------------------------------------------------------------------
(* The relational store: table cars.  A row's id is its index in cars.     *)
(* NOW() is the logical clock now, which every write statement advances.   *)

MaxCars == 2
MaxClock == 4

Bool(b) == [k |-> "boolean", s |-> <<>>, n |-> IF b THEN 1 ELSE 0]

ACTIVE == Str(<<"a", "c", "t", "i", "v", "e">>)
DRAFT == Str(<<"d", "r", "a", "f", "t">>)
INACTIVE == Str(<<"i", "n", "a", "c", "t", "i", "v", "e">>)

\* The sub-bags of features that the reconciliation reads
VehicleKeys == {"make", "model", "trim", "year", "body_type", "vehicle_type", "fuel_type"}
AddressKeys == {"city", "province", "country_code", "postal_code"}
PickupKeys ==
  {"pickup_lat", "pickup_lng", "pickup_city", "pickup_state", "pickup_country",
   "pickup_postal_code"}

\* {} as a features bag; NoFeatures is an absent `features` key
EmptyFeatures ==
  [k |-> "object",
   vehicle |-> [key \in VehicleKeys |-> Undef],
   address |-> [key \in AddressKeys |-> Undef],
   pickup |-> [key \in PickupKeys |-> Undef]]

NoFeatures == [EmptyFeatures EXCEPT !.k = "undefined"]

\* The columns a write can set through a canonical column map
PatchCols ==
  {"title", "vehicle_type", "transmission", "fuel_type", "seats", "year",
   "price_per_day", "make", "model", "trim", "body_type", "country_code",
   "city", "area", "pickup_lat", "pickup_lng", "pickup_city", "pickup_state",
   "pickup_country", "pickup_postal_code", "status"}

\* SQL text search
Contains(text, sub) ==
  \E i \in 0..(Len(text) - Len(sub)) : SubSeq(text, i + 1, i + Len(sub)) = sub

\* text LIKE pattern, for a pattern of the form %...%
Like(text, pattern) ==
  Contains(text, SubSeq(pattern, 2, Len(pattern) - 1))

\* COALESCE(col, '')
OrEmpty(v) == IF v = Null THEN <<>> ELSE v.s

Abs(n) == IF n < 0 THEN 0 - n ELSE n

\* ST_Distance(a::geography, b::geography) / 1000.0: the store's distance in
\* km.  The store's metric is not the repository's code: the points of the
\* model lie on a grid whose unit is one km.
GeoDistanceKm(lat1, lng1, lat2, lng2) == Abs(lat1 - lat2) + Abs(lng1 - lng2)

\* Whether row satisfies clause c under the bound parameters (SQL: a
\* comparison with NULL is not true)
Holds(row, c, params) ==
  LET p(j) == params[c.ph[j]] IN
  CASE c.sql = "deleted_at IS NULL" -> row.deleted_at = Null
    [] c.sql = "status = 'active'" -> row.status = ACTIVE
    [] c.sql = "country_code = $" -> row.country_code = p(1)
    [] c.sql = "LOWER(city) LIKE LOWER($)" ->
         row.city # Null /\ Like(LOWER(row.city.s), LOWER(p(1).s))
    [] c.sql = "LOWER(COALESCE(area,'')) LIKE LOWER($)" ->
         Like(LOWER(OrEmpty(row.area)), LOWER(p(1).s))
    [] c.sql = "vehicle_type = $" -> row.vehicle_type = p(1)
    [] c.sql = "transmission = $" -> row.transmission = p(1)
    [] c.sql = "fuel_type = $" -> row.fuel_type = p(1)
    [] c.sql = "status = $" -> row.status = p(1)
    [] c.sql = "seats = $" -> row.seats # Null /\ row.seats.n = p(1).n
    [] c.sql = "year >= $" -> row.year # Null /\ row.year.n >= p(1).n
    [] c.sql = "year <= $" -> row.year # Null /\ row.year.n <= p(1).n
    [] c.sql = "price_per_day >= $" ->
         row.price_per_day # Null /\ row.price_per_day.n >= p(1).n
    [] c.sql = "price_per_day <= $" ->
         row.price_per_day # Null /\ row.price_per_day.n <= p(1).n
    [] c.sql = "has_image = true AND image_public = true" ->
         row.has_image = Bool(TRUE) /\ row.image_public = Bool(TRUE)
    [] c.sql = "has_image = false" -> row.has_image = Bool(FALSE)
    [] c.sql = "(title|make|model|city|area LIKE LOWER($))" ->
         \/ row.title # Null /\ Like(LOWER(row.title.s), LOWER(p(1).s))
         \/ Like(LOWER(OrEmpty(row.make)), LOWER(p(2).s))
         \/ Like(LOWER(OrEmpty(row.model)), LOWER(p(3).s))
         \/ row.city # Null /\ Like(LOWER(row.city.s), LOWER(p(4).s))
         \/ Like(LOWER(OrEmpty(row.area)), LOWER(p(5).s))
    [] c.sql = "pickup_lat IS NOT NULL AND pickup_lng IS NOT NULL" ->
         row.pickup_lat # Null /\ row.pickup_lng # Null
    [] c.sql = "pickup_lat BETWEEN $ AND $" ->
         row.pickup_lat # Null /\ p(1).n <= row.pickup_lat.n /\ row.pickup_lat.n <= p(2).n
    [] c.sql = "pickup_lng BETWEEN $ AND $" ->
         row.pickup_lng # Null /\ p(1).n <= row.pickup_lng.n /\ row.pickup_lng.n <= p(2).n
    [] c.sql = "ST_DWithin(pickup, ($, $), $ * 1000.0)" ->
         /\ row.pickup_lat # Null /\ row.pickup_lng # Null
         /\ GeoDistanceKm(row.pickup_lat.n, row.pickup_lng.n, p(2).n, p(1).n) <= p(3).n
    [] c.sql = "id = $" -> row.id = p(1).n
    [] c.sql = "deleted_at IS NOT NULL" -> row.deleted_at # Null
    [] c.sql = "host_user_id = $" -> row.host_user_id = p(1)

\* The rows of the table that satisfy every clause (clauses joined with AND)
Matching(table, where, params) ==
  {j \in 1..Len(table) : \A n \in 1..Len(where) : Holds(table[j], where[n], params)}

\* COUNT(*)
Count(table, where, params) == Cardinality(Matching(table, where, params))

----------------------------------------------------------------------------
(* ORDER BY, LIMIT, OFFSET *)

\* COALESCE(rating_avg, rating)
RatingOf(row) == IF row.rating_avg # Null THEN row.rating_avg ELSE row.rating

\* The value an ORDER BY term sorts a row by: nulls last, then ascending v
OrderKey(term, row) ==
  LET asc(v) == IF v = Null THEN [null |-> 1, v |-> 0] ELSE [null |-> 0, v |-> v.n]
      desc(v) == IF v = Null THEN [null |-> 1, v |-> 0] ELSE [null |-> 0, v |-> 0 - v.n]
  IN CASE term = "price_per_day ASC NULLS LAST" -> asc(row.price_per_day)
       [] term = "price_per_day DESC NULLS LAST" -> desc(row.price_per_day)
       [] term = "COALESCE(rating_avg, rating) DESC NULLS LAST" -> desc(RatingOf(row))
       [] term = "created_at DESC" -> desc(row.created_at)
       [] term = "updated_at DESC" -> desc(row.updated_at)
       [] term = "is_popular DESC" -> desc(row.is_popular)
       [] term = "is_featured DESC" -> desc(row.is_featured)
       [] term = "distance_km ASC NULLS LAST" -> asc(row.distance_km)

KeyLess(a, b) == a.null < b.null \/ (a.null = b.null /\ a.v < b.v)

\* r1 sorts strictly before r2 under the ORDER BY terms
RECURSIVE SortsBefore(_, _, _)
SortsBefore(terms, r1, r2) ==
  IF terms = <<>> THEN FALSE
  ELSE LET k1 == OrderKey(Head(terms), r1)
           k2 == OrderKey(Head(terms), r2)
       IN KeyLess(k1, k2) \/ (k1 = k2 /\ SortsBefore(Tail(terms), r1, r2))

RECURSIVE Perms(_)
Perms(S) ==
  IF S = {} THEN {<<>>}
  ELSE UNION {{<<x>> \o s : s \in Perms(S \ {x})} : x \in S}

\* The orders in which the store may return the rows: every arrangement with
\* no pair out of order (rows that tie on every term come in any order)
Orderings(rows, terms) ==
  {s \in Perms(rows) :
     \A a \in 1..Len(s), b \in 1..Len(s) : a < b => ~SortsBefore(terms, s[b], s[a])}

\* Page with the offset ignored
PageFromStart(s, limit, offset) == SubSeq(s, 1, Min(Len(s), limit))

\* LIMIT limit OFFSET offset
Page(s, limit, offset) == SubSeq(s, offset + 1, Min(Len(s), offset + limit))

\* SELECT ... FROM cars WHERE ... ORDER BY ... LIMIT ... OFFSET ...: the
\* results the store may return
Select(table, where, params, terms, limit, offset) ==
  {Page(s, limit, offset) :
     s \in Orderings({table[j] : j \in Matching(table, where, params)}, terms)}

----------------------------------------------------------------------------
(* Write path of cars.ts: reconciliation of a payload into a canonical     *)
(* column map.  In a payload and in a column map Undef is an absent key.   *)

\* new Date().getFullYear() + 1
ThisYear == 2027

BodyKeys == PatchCols \cup {"province"}

EmptyBody == [key \in BodyKeys |-> Undef] @@ [features |-> NoFeatures]

EmptyPatch == [key \in PatchCols |-> Undef] @@ [features |-> NoFeatures]

\* Object.keys(patch) of a map that holds every column, set or not
allColumns(patch) == PatchCols

\* Object.keys(patch)
PatchKeys(patch) ==
  {key \in PatchCols : patch[key] # Undef}
    \cup (IF patch.features.k = "undefined" THEN {} ELSE {"features"})

denormCarColumnsFromBody(body) ==
  LET vehicle == body.features.vehicle
      address == body.features.address
      pickup == body.features.pickup
  IN [make |-> Coalesce(pickString(body.make), pickString(vehicle.make)),
      model |-> Coalesce(pickString(body.model), pickString(vehicle.model)),
      trim |-> Coalesce(pickString(body.trim), pickString(vehicle.trim)),
      year |-> Coalesce(pickInt(body.year), pickInt(vehicle.year)),
      body_type |->
        Coalesce(pickString(body.body_type),
        Coalesce(pickString(body.vehicle_type),
        Coalesce(pickString(vehicle.body_type),
        Coalesce(pickString(vehicle.vehicle_type), Null)))),
      fuel_type |-> Coalesce(pickString(body.fuel_type), pickString(vehicle.fuel_type)),
      pickup_city |->
        Coalesce(pickString(body.pickup_city),
        Coalesce(pickString(pickup.pickup_city),
        Coalesce(pickString(address.city), pickString(body.city)))),
      pickup_state |->
        Coalesce(pickString(body.pickup_state),
        Coalesce(pickString(pickup.pickup_state),
        Coalesce(pickString(address.province),
        Coalesce(pickString(body.area), pickString(body.province))))),
      pickup_country |->
        Coalesce(pickString(body.pickup_country),
        Coalesce(pickString(pickup.pickup_country),
        Coalesce(pickString(address.country_code), pickString(body.country_code)))),
      pickup_postal_code |->
        Coalesce(pickString(body.pickup_postal_code),
        Coalesce(pickString(pickup.pickup_postal_code), pickString(address.postal_code)))]

\* The keys extractPickupPatch sets (Undef: not set)
extractPickupPatch(body) ==
  LET pick == body.features.pickup
      top(key) == normalizeStr(body[key])
      nested(key) == normalizeStr(pick[key])
  IN [pickup_lat |-> Coalesce(parseLat(body.pickup_lat), parseLat(pick.pickup_lat)),
      pickup_lng |-> Coalesce(parseLng(body.pickup_lng), parseLng(pick.pickup_lng)),
      pickup_city |-> Coalesce(top("pickup_city"), nested("pickup_city")),
      pickup_state |-> Coalesce(top("pickup_state"), nested("pickup_state")),
      pickup_country |-> Coalesce(top("pickup_country"), nested("pickup_country")),
      pickup_postal_code |->
        Coalesce(top("pickup_postal_code"), nested("pickup_postal_code"))]

\* if (body.key !== undefined) out.key = normalizeStr(body.key) ?? dflt
IfSent(v, dflt) == IF v.k = "undefined" THEN Undef ELSE Coalesce(normalizeStr(v), dflt)

\* if (body.key !== undefined) { n = parseIntLike(body.key); if (n != null) out.key = clamp(n, lo, hi) }
ClampSent(v, lo, hi) ==
  LET n == parseIntLike(v) IN
  IF v.k = "undefined" \/ IsNullish(n) THEN Undef ELSE Num(clamp(n.n, lo, hi))

\* if (den != null) out.key = den  (over what out.key already holds)
Override(cur, den) == IF IsNullish(den) THEN cur ELSE den

\* if (out.key == null && den != null) out.key = den
Fallback(cur, den) == IF IsNullish(cur) /\ ~IsNullish(den) THEN den ELSE cur

sanitizeUpsert(body, isCreate) ==
  LET title == normalizeStr(body.title)
      vehicleType == normalizeStr(body.vehicle_type)
      countryCode == normalizeStr(body.country_code)
      city == normalizeStr(body.city)
      den == denormCarColumnsFromBody(body)
      pk == extractPickupPatch(body)
      s == normalizeStr(body.status)
  IN [title |-> IF isCreate THEN title ELSE IfSent(body.title, Str(<<>>)),
      vehicle_type |->
        IF isCreate THEN vehicleType ELSE IfSent(body.vehicle_type, Str(<<>>)),
      country_code |->
        IF isCreate
        THEN (IF countryCode # Undef THEN Str(toUpperCase(countryCode.s)) ELSE Undef)
        ELSE (IF body.country_code.k = "undefined" THEN Undef
              ELSE Str(toUpperCase(Coalesce(countryCode, Str(<<>>)).s))),
      city |-> IF isCreate THEN city ELSE IfSent(body.city, Str(<<>>)),
      transmission |-> IfSent(body.transmission, Str(<<>>)),
      fuel_type |-> Override(IfSent(body.fuel_type, Str(<<>>)), den.fuel_type),
      area |-> IfSent(body.area, Null),
      price_per_day |-> ClampSent(body.price_per_day, 0, 1000000),
      seats |-> ClampSent(body.seats, 1, 99),
      year |-> Override(ClampSent(body.year, 1950, ThisYear), den.year),
      make |-> Override(Undef, den.make),
      model |-> Override(Undef, den.model),
      trim |-> Override(Undef, den.trim),
      body_type |-> Override(Undef, den.body_type),
      pickup_lat |-> pk.pickup_lat,
      pickup_lng |-> pk.pickup_lng,
      pickup_city |-> Fallback(pk.pickup_city, den.pickup_city),
      pickup_state |-> Fallback(pk.pickup_state, den.pickup_state),
      pickup_country |-> Fallback(pk.pickup_country, den.pickup_country),
      pickup_postal_code |-> Fallback(pk.pickup_postal_code, den.pickup_postal_code),
      status |-> IF body.status.k = "undefined" THEN Undef ELSE s,
      features |-> IF isPlainObject(body.features) THEN body.features ELSE NoFeatures]

Ok == [ok |-> TRUE, message |-> ""]
Fail(message) == [ok |-> FALSE, message |-> message]

\* patch.key != null and Number(patch.key) is not finite or lies outside lo..hi
OutOfRange(v, lo, hi) ==
  ~IsNullish(v) /\ LET n == Number(v) IN n.k # "number" \/ n.n < lo \/ n.n > hi

\* validateUpsertSanitized without its checks
unvalidated(patch, isCreate) == Ok

validateUpsertSanitized(patch, isCreate) ==
  IF isCreate /\ (\/ normalizeStr(patch.title) = Undef
                  \/ normalizeStr(patch.vehicle_type) = Undef
                  \/ normalizeStr(patch.country_code) = Undef
                  \/ normalizeStr(patch.city) = Undef)
  THEN Fail("title, vehicle_type, country_code, and city are required")
  ELSE IF ~IsNullish(patch.price_per_day)
          /\ LET n == Number(patch.price_per_day) IN n.k # "number" \/ n.n < 0
  THEN Fail("price_per_day must be a positive number")
  ELSE IF OutOfRange(patch.seats, 1, 99) THEN Fail("seats must be between 1 and 99")
  ELSE IF OutOfRange(patch.year, 1950, ThisYear)
  THEN Fail("year must be between 1950 and thisYear")
  ELSE IF OutOfRange(patch.pickup_lat, -90, 90)
  THEN Fail("pickup_lat must be between -90 and 90")
  ELSE IF OutOfRange(patch.pickup_lng, -180, 180)
  THEN Fail("pickup_lng must be between -180 and 180")
  ELSE Ok

----------------------------------------------------------------------------
(* Requests and replies *)

NoPage == [limit |-> 0, offset |-> 0, total |-> 0]

NoBound == [limit |-> 0, offset |-> 0]

\* A reply: the HTTP code and message, the rows sent (items), the page
\* block, and three records of what the handler asked of the store: the
\* statements it issued, in order (issued), the ids of the rows its queries
\* returned or counted (ids), and the LIMIT and OFFSET of its row query
\* (bound).
Reply(code, message, items, page, issued, ids) ==
  [code |-> code, message |-> message, items |-> items, page |-> page,
   issued |-> issued, ids |-> ids, bound |-> NoBound]

\* The reply of a handler whose row query ran with LIMIT limit OFFSET offset
Bounded(reply, limit, offset) ==
  [reply EXCEPT !.bound = [limit |-> limit, offset |-> offset]]

Request(op, id, uid, q, body) == [op |-> op, id |-> id, uid |-> uid, q |-> q, body |-> body]

IdsOf(items) == {items[j].id : j \in 1..Len(items)}

NewBuilder == [where |-> <<>>, params |-> <<>>, i |-> 1]

\* ActiveWhere without its soft-delete clause
ActiveOnlyWhere == PushLit(NewBuilder, "status = 'active'")

\* WHERE deleted_at IS NULL AND status = 'active'
ActiveWhere == PushLit(PushLit(NewBuilder, "deleted_at IS NULL"), "status = 'active'")

----------------------------------------------------------------------------
(* Read routes of cars.ts *)

\* GET /cars and GET /cars/search
ListCars(op, q) ==
  \E w \in {buildWhere(q)} :
  LET limit == pageLimit(q, 20, 50)
      offset == pageOffset(q)
      orderBy == buildOrder(q.sort)
      counted == Matching(cars, w.where, w.params)
  IN \E items \in Select(cars, w.where, w.params, orderBy, limit, offset) :
       /\ req' = Request(op, 0, 0, q, EmptyBody)
       /\ resp' = Bounded(Reply(200, "", items,
                                [limit |-> limit, offset |-> offset,
                                 total |-> Cardinality(counted)],
                                <<"SELECT COUNT", "SELECT">>, counted \cup IdsOf(items)),
                          limit, offset)
       /\ UNCHANGED <<cars, now>>

\* mapBounds without its checks
anyBounds(q) == Ok

\* GET /cars/map: the bounding box, or the message of the 400 reply
mapBounds(q) ==
  LET minLat == parseNumber(q.minLat)
      maxLat == parseNumber(q.maxLat)
      minLng == parseNumber(q.minLng)
      maxLng == parseNumber(q.maxLng)
  IN IF IsNullish(minLat) \/ IsNullish(maxLat) \/ IsNullish(minLng) \/ IsNullish(maxLng)
     THEN Fail("minLat,maxLat,minLng,maxLng are required")
     ELSE IF minLat.n > maxLat.n \/ minLng.n > maxLng.n
     THEN Fail("minLat <= maxLat and minLng <= maxLng")
     ELSE Ok

\* GET /cars/map: the predicate, its parameters and the ORDER BY terms
mapWhere(q) ==
  LET lat == parseNumber(q.lat)
      lng == parseNumber(q.lng)
      radiusKmRaw == parseNumber(q.radiusKm)
      hasRadius == ~IsNullish(lat) /\ ~IsNullish(lng) /\ ~IsNullish(radiusKmRaw)
      radiusKm == Num(clamp(radiusKmRaw.n, 1, 50))
      w == buildWhere(q)
      b == Emit(<<Lit(TRUE, "pickup_lat IS NOT NULL AND pickup_lng IS NOT NULL"),
                  Clause(TRUE, "pickup_lat BETWEEN $ AND $",
                         <<parseNumber(q.minLat), parseNumber(q.maxLat)>>, <<0, 1>>),
                  Clause(TRUE, "pickup_lng BETWEEN $ AND $",
                         <<parseNumber(q.minLng), parseNumber(q.maxLng)>>, <<0, 1>>),
                  Lit(normalizeStr(q.status) = Undef, "status = 'active'"),
                  Clause(hasRadius, "ST_DWithin(pickup, ($, $), $ * 1000.0)",
                         <<lat, lng, radiusKm>>, <<1, 0, 2>>)>>,
                [where |-> w.where, params |-> w.params, i |-> Len(w.params) + 1])
  IN [where |-> b.where, params |-> b.params, hasRadius |-> hasRadius,
      lat |-> lat, lng |-> lng,
      orderSql |-> IF hasRadius
                   THEN <<"distance_km ASC NULLS LAST">> \o buildOrder(q.sort)
                   ELSE buildOrder(q.sort)]

\* The select list of the map query: with a radius, each row carries distance_km
WithDistance(table, m) ==
  [j \in 1..Len(table) |->
     table[j] @@
       [distance_km |->
          IF m.hasRadius /\ table[j].pickup_lat # Null /\ table[j].pickup_lng # Null
          THEN Num(GeoDistanceKm(table[j].pickup_lat.n, table[j].pickup_lng.n,
                                 m.lat.n, m.lng.n))
          ELSE Null]]

MapCars(q) ==
  LET v == mapBounds(q)
      limit == pageLimit(q, 200, 500)
  IN /\ req' = Request("GET /cars/map", 0, 0, q, EmptyBody)
     /\ UNCHANGED <<cars, now>>
     /\ IF ~v.ok
        THEN resp' = Reply(400, v.message, <<>>, NoPage, <<>>, {})
        ELSE \E m \in {mapWhere(q)} :
             \E table \in {WithDistance(cars, m)} :
             \E items \in Select(table, m.where, m.params, m.orderSql, limit, 0) :
               resp' = Bounded(Reply(200, "", items, NoPage, <<"SELECT">>, IdsOf(items)),
                               limit, 0)

PopularOrder ==
  <<"is_popular DESC", "COALESCE(rating_avg, rating) DESC NULLS LAST", "created_at DESC">>

\* GET /cars/:id
GetCar(id) ==
  LET b == PushLit(PushLit(PushParam(NewBuilder, "id = $", Num(id)),
                           "deleted_at IS NULL"), "status = 'active'")
  IN \E items \in Select(cars, b.where, b.params, <<>>, 1, 0) :
       /\ req' = Request("GET /cars/:id", id, 0, EmptyQuery, EmptyBody)
       /\ resp' = IF items = <<>>
                  THEN Reply(404, "Car not found", <<>>, NoPage, <<"SELECT">>, {})
                  ELSE Reply(200, "", items, NoPage, <<"SELECT">>, IdsOf(items))
       /\ UNCHANGED <<cars, now>>

\* GET /cars/featured and GET /cars/popular
TopCars(op, q, orderBy) ==
  LET limit == pageLimit(q, 10, 20)
  IN \E items \in Select(cars, ActiveWhere.where, ActiveWhere.params, orderBy, limit, 0) :
       /\ req' = Request(op, 0, 0, q, EmptyBody)
       /\ resp' = Bounded(Reply(200, "", items, NoPage, <<"SELECT">>, IdsOf(items)),
                          limit, 0)
       /\ UNCHANGED <<cars, now>>

\* GET /cars/search/suggest
SuggestCars(q) ==
  LET term == normalizeStr(q.q)
      limit == pageLimit(q, 8, 20)
      b0 == [where |-> Append(ActiveWhere.where,
                [sql |-> "(title|make|model|city|area LIKE LOWER($))",
                 ph |-> <<1, 1, 1, 1, 1>>]),
             params |-> <<LikePattern(term)>>,
             i |-> 2]
      b1 == IfParam(b0, normalizeStr(q.country), "country_code = $", normalizeStr(q.country))
  IN /\ req' = Request("GET /cars/search/suggest", 0, 0, q, EmptyBody)
     /\ UNCHANGED <<cars, now>>
     /\ IF IsNullish(term)
        THEN resp' = Reply(200, "", <<>>, NoPage, <<>>, {})
        ELSE \E items \in Select(cars, b1.where, b1.params, PopularOrder, limit, 0) :
               resp' = Bounded(Reply(200, "", items, NoPage, <<"SELECT">>, IdsOf(items)),
                               limit, 0)

\* GET /cars/filters: eight aggregate queries over one predicate
FilterCars(q) ==
  LET b == IF normalizeStr(q.country) = Undef THEN ActiveWhere
           ELSE PushParam(ActiveWhere, "country_code = $", Str(String(q.country)))
      used == Matching(cars, b.where, b.params)
  IN /\ req' = Request("GET /cars/filters", 0, 0, q, EmptyBody)
     /\ resp' = Reply(200, "", <<>>, NoPage,
                      <<"SELECT DISTINCT", "SELECT DISTINCT", "SELECT DISTINCT",
                        "SELECT DISTINCT", "SELECT MIN MAX", "SELECT MIN MAX",
                        "SELECT DISTINCT", "SELECT DISTINCT">>, used)
     /\ UNCHANGED <<cars, now>>

\* GET /cars/stats
StatCars(q) ==
  LET country == normalizeStr(q.country)
      city == normalizeStr(q.city)
      b0 == PushLit(NewBuilder, "deleted_at IS NULL")
      b1 == IfParam(b0, country, "country_code = $", country)
      b2 == IfParam(b1, city, "LOWER(city) LIKE LOWER($)", LikePattern(city))
      used == Matching(cars, b2.where, b2.params)
  IN /\ req' = Request("GET /cars/stats", 0, 0, q, EmptyBody)
     /\ resp' = Reply(200, "", <<>>,
                      [limit |-> 0, offset |-> 0, total |-> Cardinality(used)],
                      <<"SELECT COUNT">>, used)
     /\ UNCHANGED <<cars, now>>

----------------------------------------------------------------------------
(* Write routes of cars.ts *)

\* The row INSERT INTO cars ... VALUES ($1, ..., $31, NOW(), NOW()) stores
InsertedRow(id, hostUserId, patch) ==
  [id |-> id,
   host_user_id |-> hostUserId,
   title |-> OrNull(patch.title),
   vehicle_type |-> OrNull(patch.vehicle_type),
   transmission |-> OrNull(patch.transmission),
   fuel_type |-> OrNull(patch.fuel_type),
   seats |-> OrNull(patch.seats),
   year |-> OrNull(patch.year),
   price_per_day |-> OrNull(patch.price_per_day),
   make |-> OrNull(patch.make),
   model |-> OrNull(patch.model),
   trim |-> OrNull(patch.trim),
   body_type |-> OrNull(patch.body_type),
   country_code |-> OrNull(patch.country_code),
   city |-> OrNull(patch.city),
   area |-> OrNull(patch.area),
   pickup_lat |-> OrNull(patch.pickup_lat),
   pickup_lng |-> OrNull(patch.pickup_lng),
   pickup_city |-> OrNull(patch.pickup_city),
   pickup_state |-> OrNull(patch.pickup_state),
   pickup_country |-> OrNull(patch.pickup_country),
   pickup_postal_code |-> OrNull(patch.pickup_postal_code),
   has_image |-> Bool(FALSE),
   image_public |-> Bool(TRUE),
   is_popular |-> Bool(FALSE),
   is_featured |-> Bool(FALSE),
   rating_avg |-> Null,
   rating |-> Null,
   status |-> Coalesce(patch.status, DRAFT),
   features |-> IF patch.features.k = "undefined" THEN EmptyFeatures ELSE patch.features,
   created_at |-> Num(now),
   updated_at |-> Num(now),
   deleted_at |-> Null]

\* POST /cars
CreateCar(body) ==
  \E patch \in {sanitizeUpsert(body, TRUE)} :
  LET v == validateUpsertSanitized(patch, TRUE)
      row == InsertedRow(Len(cars) + 1, Null, patch)
  IN /\ req' = Request("POST /cars", 0, 0, EmptyQuery, body)
     /\ IF ~v.ok
        THEN /\ resp' = Reply(400, v.message, <<>>, NoPage, <<>>, {})
             /\ UNCHANGED <<cars, now>>
        ELSE /\ Len(cars) < MaxCars
             /\ now < MaxClock
             /\ cars' = Append(cars, row)
             /\ now' = now + 1
             /\ resp' = Reply(201, "", <<row>>, NoPage, <<"INSERT">>, {row.id})

\* UPDATE cars SET <each key of patch>, updated_at = NOW()
SetColumns(row, patch) ==
  [col \in DOMAIN row |->
     IF col \in PatchKeys(patch) THEN patch[col]
     ELSE IF col = "updated_at" THEN Num(now)
     ELSE row[col]]

\* The store's answer to UPDATE ... WHERE ... RETURNING: the table after the
\* statement and the rows it changed (set[j]: row j under the SET list)
ExecUpdate(where, params, set) ==
  LET hit == Matching(cars, where, params)
      table == [j \in 1..Len(cars) |-> IF j \in hit THEN set[j] ELSE cars[j]]
  IN [table |-> table, ids |-> hit]

\* WHERE id = $n
AnyIdWhere(id) == PushParam(NewBuilder, "id = $", Num(id))

\* WHERE id = $n AND deleted_at IS NULL
LiveIdWhere(id) == PushLit(PushParam(NewBuilder, "id = $", Num(id)), "deleted_at IS NULL")

\* PATCH /cars/:id
UpdateCar(id, body) ==
  \E patch \in {sanitizeUpsert(body, FALSE)} :
  LET v == validateUpsertSanitized(patch, FALSE)
      keys == PatchKeys(patch)
      b == LiveIdWhere(id)
      res == ExecUpdate(b.where, b.params, [j \in 1..Len(cars) |-> SetColumns(cars[j], patch)])
  IN /\ req' = Request("PATCH /cars/:id", id, 0, EmptyQuery, body)
     /\ IF ~v.ok
        THEN /\ resp' = Reply(400, v.message, <<>>, NoPage, <<>>, {})
             /\ UNCHANGED <<cars, now>>
        ELSE IF keys = {}
        THEN /\ resp' = Reply(400, "No fields provided to update", <<>>, NoPage, <<>>, {})
             /\ UNCHANGED <<cars, now>>
        ELSE IF res.ids = {}
        THEN /\ resp' = Reply(404, "Car not found", <<>>, NoPage, <<"UPDATE">>, {})
             /\ UNCHANGED <<cars, now>>
        ELSE /\ now < MaxClock
             /\ cars' = res.table
             /\ now' = now + 1
             /\ resp' = Reply(200, "", <<res.table[id]>>, NoPage, <<"UPDATE">>, res.ids)

\* COALESCE($n, column)
SqlCoalesce(param, column) == IF param = Null THEN column ELSE param

\* PublishColumns with the status alone
statusAlone(row, status, features, den) == [row EXCEPT !.status = status]

\* The SET list of the publish UPDATE of cars.ts
PublishColumns(row, status, features, den) ==
  [row EXCEPT
     !.status = status,
     !.updated_at = Num(now),
     !.features = features,
     !.make = SqlCoalesce(den.make, @),
     !.model = SqlCoalesce(den.model, @),
     !.trim = SqlCoalesce(den.trim, @),
     !.year = SqlCoalesce(den.year, @),
     !.body_type = SqlCoalesce(den.body_type, @),
     !.fuel_type = SqlCoalesce(den.fuel_type, @),
     !.pickup_city = SqlCoalesce(den.pickup_city, @),
     !.pickup_state = SqlCoalesce(den.pickup_state, @),
     !.pickup_country = SqlCoalesce(den.pickup_country, @),
     !.pickup_postal_code = SqlCoalesce(den.pickup_postal_code, @)]

\* mergedBody without the stored features
bodyAlone(body, current) == body

\* mergedBody: { ...body, features: incomingFeatures ?? current.features ?? {} }
mergedBody(body, current) ==
  [body EXCEPT !.features = IF isPlainObject(body.features) THEN body.features
                             ELSE current.features]

\* PATCH /cars/:id/publish
PublishCar(id, body) ==
  LET status == normalizeStr(body.status)
      b == LiveIdWhere(id)
      found == Matching(cars, b.where, b.params)
      merged == mergedBody(body, cars[id])
      den == denormCarColumnsFromBody(merged)
      res == ExecUpdate(b.where, b.params,
                        [j \in 1..Len(cars) |-> PublishColumns(cars[j], status, merged.features, den)])
  IN /\ req' = Request("PATCH /cars/:id/publish", id, 0, EmptyQuery, body)
     /\ IF status = Undef
        THEN /\ resp' = Reply(400, "status is required", <<>>, NoPage, <<>>, {})
             /\ UNCHANGED <<cars, now>>
        ELSE IF found = {}
        THEN /\ resp' = Reply(404, "Car not found", <<>>, NoPage, <<"SELECT">>, {})
             /\ UNCHANGED <<cars, now>>
        ELSE /\ now < MaxClock
             /\ cars' = res.table
             /\ now' = now + 1
             /\ resp' = Reply(200, "", <<res.table[id]>>, NoPage,
                              <<"SELECT", "UPDATE">>, res.ids)

\* DELETE /cars/:id
DeleteCar(id) ==
  LET b == LiveIdWhere(id)
      res == ExecUpdate(b.where, b.params,
               [j \in 1..Len(cars) |-> [cars[j] EXCEPT !.deleted_at = Num(now), !.updated_at = Num(now)]])
  IN /\ req' = Request("DELETE /cars/:id", id, 0, EmptyQuery, EmptyBody)
     /\ IF res.ids = {}
        THEN /\ resp' = Reply(404, "Car not found", <<>>, NoPage, <<"UPDATE">>, {})
             /\ UNCHANGED <<cars, now>>
        ELSE /\ now < MaxClock
             /\ cars' = res.table
             /\ now' = now + 1
             /\ resp' = Reply(200, "", <<>>, NoPage, <<"UPDATE">>, res.ids)

\* A restore that also puts the row back to draft
RestoreAsDraft(id) ==
  LET b == PushLit(PushParam(NewBuilder, "id = $", Num(id)), "deleted_at IS NOT NULL")
      res == ExecUpdate(b.where, b.params,
               [j \in 1..Len(cars) |-> [cars[j] EXCEPT !.deleted_at = Null, !.status = DRAFT,
                                                       !.updated_at = Num(now)]])
  IN /\ req' = Request("POST /cars/:id/restore", id, 0, EmptyQuery, EmptyBody)
     /\ IF res.ids = {}
        THEN /\ resp' = Reply(404, "Car not found or not deleted", <<>>, NoPage,
                              <<"UPDATE">>, {})
             /\ UNCHANGED <<cars, now>>
        ELSE /\ now < MaxClock
             /\ cars' = res.table
             /\ now' = now + 1
             /\ resp' = Reply(200, "", <<res.table[id]>>, NoPage, <<"UPDATE">>, res.ids)

\* POST /cars/:id/restore
RestoreCar(id) ==
  LET b == PushLit(PushParam(NewBuilder, "id = $", Num(id)), "deleted_at IS NOT NULL")
      res == ExecUpdate(b.where, b.params,
               [j \in 1..Len(cars) |-> [cars[j] EXCEPT !.deleted_at = Null, !.updated_at = Num(now)]])
  IN /\ req' = Request("POST /cars/:id/restore", id, 0, EmptyQuery, EmptyBody)
     /\ IF res.ids = {}
        THEN /\ resp' = Reply(404, "Car not found or not deleted", <<>>, NoPage,
                              <<"UPDATE">>, {})
             /\ UNCHANGED <<cars, now>>
        ELSE /\ now < MaxClock
             /\ cars' = res.table
             /\ now' = now + 1
             /\ resp' = Reply(200, "", <<res.table[id]>>, NoPage, <<"UPDATE">>, res.ids)

----------------------------------------------------------------------------
(* Host car routes of user.ts (hostCarsRoutes)                             *)

\* Tables users and hosts: the firebase uids with a users row (the user id
\* is the uid's number), and the user ids with a hosts row
DbUsers == {1, 2, 3}
HostUsers == {1, 2}

getDbUserIdByFirebaseUid(uid) == IF uid \in DbUsers THEN Num(uid) ELSE Null
getHostByUserId(userId) == userId.k = "number" /\ userId.n \in HostUsers

\* isNonEmptyString without the test of the trimmed length
isString(v) == v.k = "string"

isNonEmptyString(v) == v.k = "string" /\ Len(trim(v.s)) > 0

clampInt(n, min, max) == Max(min, Min(max, n))

cleanTextOrNull(v) ==
  IF v.k # "string" THEN Null
  ELSE LET s == trim(v.s) IN IF Len(s) > 0 THEN Str(s) ELSE Null

cleanTextKeepEmpty(v) == IF v.k # "string" THEN Undef ELSE Str(trim(v.s))

\* String(v).replace(/[^\d-]/g, "")
RECURSIVE DigitsAndMinus(_)
DigitsAndMinus(s) ==
  IF s = <<>> THEN <<>>
  ELSE IF Head(s) \in Digits \cup {"-"} THEN <<Head(s)>> \o DigitsAndMinus(Tail(s))
  ELSE DigitsAndMinus(Tail(s))

\* parseIntLike of user.ts
hostParseIntLike(v) ==
  IF v.k = "number" THEN v
  ELSE IF v.k = "string" THEN
    LET digits == DigitsAndMinus(v.s) IN
    IF digits = <<>> THEN Null
    ELSE LET n == StringToNumber(digits) IN IF n.k = "number" THEN n ELSE Null
  ELSE Null

\* parseNumber, parseLat, parseLng of user.ts
hostParseNumber(v) ==
  IF v.k = "number" THEN v
  ELSE IF v.k = "string" THEN
    LET s == trim(v.s) IN
    IF s = <<>> THEN Null
    ELSE LET n == StringToNumber(s) IN IF n.k = "number" THEN n ELSE Null
  ELSE Null

hostParseLat(v) ==
  LET n == hostParseNumber(v) IN
  IF n = Null THEN Null ELSE IF n.n < -90 \/ n.n > 90 THEN Null ELSE n

hostParseLng(v) ==
  LET n == hostParseNumber(v) IN
  IF n = Null THEN Null ELSE IF n.n < -180 \/ n.n > 180 THEN Null ELSE n

\* null -> an absent key
Key(v) == IF IsNullish(v) THEN Undef ELSE v

\* extractPickupPatch of user.ts: the keys it sets
hostExtractPickupPatch(body) ==
  LET pick == body.features.pickup
      top(key) == cleanTextOrNull(body[key])
      nested(key) == cleanTextOrNull(pick[key])
  IN [pickup_lat |-> Key(Coalesce(hostParseLat(body.pickup_lat), hostParseLat(pick.pickup_lat))),
      pickup_lng |-> Key(Coalesce(hostParseLng(body.pickup_lng), hostParseLng(pick.pickup_lng))),
      pickup_city |-> Key(Coalesce(top("pickup_city"), nested("pickup_city"))),
      pickup_state |-> Key(Coalesce(top("pickup_state"), nested("pickup_state"))),
      pickup_country |-> Key(Coalesce(top("pickup_country"), nested("pickup_country"))),
      pickup_postal_code |->
        Key(Coalesce(top("pickup_postal_code"), nested("pickup_postal_code")))]

\* denormCarColumnsFromBody of user.ts
hostDenormCarColumnsFromBody(body) ==
  LET vehicle == body.features.vehicle
      address == body.features.address
      pickup == body.features.pickup
  IN [make |-> Coalesce(pickString(body.make), pickString(vehicle.make)),
      model |-> Coalesce(pickString(body.model), pickString(vehicle.model)),
      trim |-> Coalesce(pickString(body.trim), pickString(vehicle.trim)),
      year |-> Coalesce(pickInt(body.year), pickInt(vehicle.year)),
      body_type |-> Coalesce(pickString(body.body_type), pickString(vehicle.body_type)),
      fuel_type |-> Coalesce(pickString(body.fuel_type), pickString(vehicle.fuel_type)),
      pickup_city |->
        Coalesce(pickString(body.pickup_city),
        Coalesce(pickString(pickup.pickup_city),
        Coalesce(pickString(address.city), pickString(body.city)))),
      pickup_state |->
        Coalesce(pickString(body.pickup_state),
        Coalesce(pickString(pickup.pickup_state),
        Coalesce(pickString(address.province),
        Coalesce(pickString(body.area), pickString(body.province))))),
      pickup_country |->
        Coalesce(pickString(body.pickup_country),
        Coalesce(pickString(pickup.pickup_country),
        Coalesce(pickString(address.country_code), pickString(body.country_code)))),
      pickup_postal_code |->
        Coalesce(pickString(body.pickup_postal_code),
        Coalesce(pickString(pickup.pickup_postal_code), pickString(address.postal_code)))]

\* if (typeof v === "string") out.key = v.trim()
TrimIfString(v) == IF v.k = "string" THEN Str(trim(v.s)) ELSE Undef

\* n = parseIntLike(v); if (n !== null) out.key = clampInt(n, lo, hi)
hostClamp(v, lo, hi) ==
  LET n == hostParseIntLike(v) IN IF n = Null THEN Undef ELSE Num(clampInt(n.n, lo, hi))

\* if (out.key === undefined && denorm.key) out.key = denorm.key
hostFallback(cur, den) == IF cur = Undef /\ ~IsNullish(den) THEN den ELSE cur

\* if (out.year === undefined && denorm.year != null) out.year = clampInt(denorm.year, 1900, 2100)
hostYear(cur, den) ==
  IF cur = Undef /\ ~IsNullish(den) THEN Num(clampInt(den.n, 1900, 2100)) ELSE cur

sanitizeCarCreate(body) ==
  LET denorm == hostDenormCarColumnsFromBody(body)
      pk == hostExtractPickupPatch(body)
  IN [title |-> IF isNonEmptyString(body.title) THEN Str(trim(body.title.s)) ELSE Undef,
      vehicle_type |->
        IF isNonEmptyString(body.vehicle_type) THEN Str(trim(body.vehicle_type.s)) ELSE Undef,
      transmission |->
        IF isNonEmptyString(body.transmission) THEN Str(trim(body.transmission.s)) ELSE Undef,
      seats |-> hostClamp(body.seats, 1, 99),
      price_per_day |-> hostClamp(body.price_per_day, 0, 1000000),
      country_code |->
        IF body.country_code.k = "string"
        THEN Str(toUpperCase(trim(body.country_code.s))) ELSE Undef,
      city |-> TrimIfString(body.city),
      area |-> IF body.area.k # "string" THEN Undef
               ELSE IF trim(body.area.s) = <<>> THEN Null ELSE Str(trim(body.area.s)),
      pickup_lat |-> pk.pickup_lat,
      pickup_lng |-> pk.pickup_lng,
      pickup_city |-> hostFallback(pk.pickup_city, denorm.pickup_city),
      pickup_state |-> hostFallback(pk.pickup_state, denorm.pickup_state),
      pickup_country |-> hostFallback(pk.pickup_country, denorm.pickup_country),
      pickup_postal_code |-> hostFallback(pk.pickup_postal_code, denorm.pickup_postal_code),
      features |-> IF isPlainObject(body.features) THEN body.features ELSE NoFeatures,
      make |-> Key(denorm.make),
      model |-> Key(denorm.model),
      trim |-> Key(denorm.trim),
      year |-> hostYear(Undef, denorm.year),
      body_type |-> Key(denorm.body_type),
      fuel_type |-> Key(denorm.fuel_type),
      status |-> Undef]

sanitizeCarPatch(body) ==
  LET denorm == hostDenormCarColumnsFromBody(body)
      pk == hostExtractPickupPatch(body)
  IN [title |-> cleanTextKeepEmpty(body.title),
      vehicle_type |-> cleanTextKeepEmpty(body.vehicle_type),
      transmission |-> cleanTextKeepEmpty(body.transmission),
      seats |-> hostClamp(body.seats, 1, 99),
      price_per_day |-> hostClamp(body.price_per_day, 0, 1000000),
      year |-> hostYear(hostClamp(body.year, 1900, 2100), denorm.year),
      country_code |->
        IF body.country_code.k = "string"
        THEN Str(toUpperCase(trim(body.country_code.s))) ELSE Undef,
      city |-> TrimIfString(body.city),
      area |-> IF body.area.k # "string" THEN Undef
               ELSE IF trim(body.area.s) = <<>> THEN Null ELSE Str(trim(body.area.s)),
      pickup_lat |-> pk.pickup_lat,
      pickup_lng |-> pk.pickup_lng,
      pickup_city |-> hostFallback(pk.pickup_city, denorm.pickup_city),
      pickup_state |-> hostFallback(pk.pickup_state, denorm.pickup_state),
      pickup_country |-> hostFallback(pk.pickup_country, denorm.pickup_country),
      pickup_postal_code |-> hostFallback(pk.pickup_postal_code, denorm.pickup_postal_code),
      make |-> hostFallback(Key(cleanTextOrNull(body.make)), denorm.make),
      model |-> hostFallback(Key(cleanTextOrNull(body.model)), denorm.model),
      trim |-> hostFallback(Key(cleanTextOrNull(body.trim)), denorm.trim),
      body_type |-> hostFallback(Key(cleanTextOrNull(body.body_type)), denorm.body_type),
      fuel_type |-> hostFallback(Key(cleanTextOrNull(body.fuel_type)), denorm.fuel_type),
      features |-> IF isPlainObject(body.features) THEN body.features ELSE NoFeatures,
      status |-> Undef]

\* WHERE id = $n AND deleted_at IS NULL, whoever the owner
UnownedIdWhere(id, userId) ==
  PushLit(PushParam(NewBuilder, "id = $", Num(id)), "deleted_at IS NULL")

\* WHERE id = $n AND host_user_id = $m AND deleted_at IS NULL
OwnedIdWhere(id, userId) ==
  PushLit(PushParam(PushParam(NewBuilder, "id = $", Num(id)), "host_user_id = $", userId),
          "deleted_at IS NULL")

\* POST /host/cars.  The INSERT names only the keys of patch; the columns it
\* leaves out take the defaults of InsertedRow.
HostCreate(uid, body) ==
  \E patch \in {sanitizeCarCreate(body)} :
  LET userId == getDbUserIdByFirebaseUid(uid)
      row == InsertedRow(Len(cars) + 1, userId, patch)
  IN /\ req' = Request("POST /host/cars", 0, uid, EmptyQuery, body)
     /\ IF userId = Null
        THEN /\ resp' = Reply(404, "User not found", <<>>, NoPage, <<"SELECT users">>, {})
             /\ UNCHANGED <<cars, now>>
        ELSE IF ~getHostByUserId(userId)
        THEN /\ resp' = Reply(404, "HOST_NOT_FOUND", <<>>, NoPage,
                              <<"SELECT users", "SELECT hosts">>, {})
             /\ UNCHANGED <<cars, now>>
        ELSE IF \/ ~isNonEmptyString(patch.title)
                \/ ~isNonEmptyString(patch.vehicle_type)
                \/ ~isNonEmptyString(patch.transmission)
        THEN /\ resp' = Reply(400,
                              "title, vehicle_type, transmission are required to create a draft car.",
                              <<>>, NoPage, <<"SELECT users", "SELECT hosts">>, {})
             /\ UNCHANGED <<cars, now>>
        ELSE /\ Len(cars) < MaxCars
             /\ now < MaxClock
             /\ cars' = Append(cars, row)
             /\ now' = now + 1
             /\ resp' = Reply(201, "", <<row>>, NoPage,
                              <<"SELECT users", "SELECT hosts", "INSERT">>, {row.id})

\* PATCH /host/cars/:id
HostUpdate(uid, id, body) ==
  \E patch \in {sanitizeCarPatch(body)} :
  LET userId == getDbUserIdByFirebaseUid(uid)
      keys == PatchKeys(patch)
      b == OwnedIdWhere(id, userId)
      res == ExecUpdate(b.where, b.params, [j \in 1..Len(cars) |-> SetColumns(cars[j], patch)])
  IN /\ req' = Request("PATCH /host/cars/:id", id, uid, EmptyQuery, body)
     /\ IF userId = Null
        THEN /\ resp' = Reply(404, "User not found", <<>>, NoPage, <<"SELECT users">>, {})
             /\ UNCHANGED <<cars, now>>
        ELSE IF keys = {}
        THEN /\ resp' = Reply(400, "No valid updates provided.", <<>>, NoPage,
                              <<"SELECT users">>, {})
             /\ UNCHANGED <<cars, now>>
        ELSE IF res.ids = {}
        THEN /\ resp' = Reply(404, "Car not found (or not owned by you).", <<>>, NoPage,
                              <<"SELECT users", "UPDATE">>, {})
             /\ UNCHANGED <<cars, now>>
        ELSE /\ now < MaxClock
             /\ cars' = res.table
             /\ now' = now + 1
             /\ resp' = Reply(200, "", <<res.table[id]>>, NoPage,
                              <<"SELECT users", "UPDATE">>, res.ids)

\* NULLIF(column, '')
NullIfEmpty(column) == IF column = Str(<<>>) THEN Null ELSE column

\* The SET list of the publish UPDATE of user.ts
HostPublishColumns(row, features, denorm) ==
  [row EXCEPT
     !.status = ACTIVE,
     !.updated_at = Num(now),
     !.features = features,
     !.make = SqlCoalesce(denorm.make, NullIfEmpty(@)),
     !.model = SqlCoalesce(denorm.model, NullIfEmpty(@)),
     !.trim = SqlCoalesce(denorm.trim, NullIfEmpty(@)),
     !.year = SqlCoalesce(denorm.year, @),
     !.body_type = IF denorm.body_type = Null \/ denorm.body_type = Str(<<>>)
                   THEN @ ELSE denorm.body_type,
     !.fuel_type = IF denorm.fuel_type = Null \/ denorm.fuel_type = Str(<<>>)
                   THEN @ ELSE denorm.fuel_type,
     !.pickup_city = SqlCoalesce(denorm.pickup_city, NullIfEmpty(@)),
     !.pickup_state = SqlCoalesce(denorm.pickup_state, NullIfEmpty(@)),
     !.pickup_country = SqlCoalesce(denorm.pickup_country, NullIfEmpty(@)),
     !.pickup_postal_code = SqlCoalesce(denorm.pickup_postal_code, NullIfEmpty(@))]

\* nextFeatures: body.features if it is an object, else existing.features ?? {}
nextFeatures(body, existing) ==
  IF body.features.k = "object" THEN body.features ELSE existing.features

\* POST /host/cars/:id/publish
HostPublish(uid, id, body) ==
  LET userId == getDbUserIdByFirebaseUid(uid)
      b == OwnedIdWhere(id, userId)
      found == Matching(cars, b.where, b.params)
      features == nextFeatures(body, cars[id])
      denorm == hostDenormCarColumnsFromBody([body EXCEPT !.features = features])
      res == ExecUpdate(b.where, b.params,
                        [j \in 1..Len(cars) |-> HostPublishColumns(cars[j], features, denorm)])
  IN /\ req' = Request("POST /host/cars/:id/publish", id, uid, EmptyQuery, body)
     /\ IF userId = Null
        THEN /\ resp' = Reply(404, "User not found", <<>>, NoPage, <<"SELECT users">>, {})
             /\ UNCHANGED <<cars, now>>
        ELSE IF ~getHostByUserId(userId)
        THEN /\ resp' = Reply(404, "HOST_NOT_FOUND", <<>>, NoPage,
                              <<"SELECT users", "SELECT hosts">>, {})
             /\ UNCHANGED <<cars, now>>
        ELSE IF found = {}
        THEN /\ resp' = Reply(404, "CAR_NOT_FOUND", <<>>, NoPage,
                              <<"SELECT users", "SELECT hosts", "SELECT">>, {})
             /\ UNCHANGED <<cars, now>>
        ELSE /\ now < MaxClock
             /\ cars' = res.table
             /\ now' = now + 1
             /\ resp' = Reply(200, "", <<res.table[id]>>, NoPage,
                              <<"SELECT users", "SELECT hosts", "SELECT", "UPDATE">>,
                              res.ids)

----------------------------------------------------------------------------
(* The requests of the model *)

Toyota == Str(<<"T", "o", "y", "o", "t", "a">>)
Honda == Str(<<"H", "o", "n", "d", "a">>)
Kia == Str(<<"K", "i", "a">>)
Ajax == Str(<<"A", "j", "a", "x">>)
Blank == Str(<<" ", " ">>)

\* A features bag with nested vehicle and pickup values
ToyotaFeatures ==
  [EmptyFeatures EXCEPT !.vehicle.make = Toyota,
                        !.vehicle.year = Num(2020),
                        !.pickup.pickup_lat = Num(43),
                        !.pickup.pickup_lng = Num(-79),
                        !.pickup.pickup_city = Ajax]

\* The four fields POST /cars requires
PlainBody ==
  [EmptyBody EXCEPT !.title = Str(<<"C", "a", "r">>),
                    !.vehicle_type = Str(<<"s", "u", "v">>),
                    !.country_code = Str(<<"c", "a">>),
                    !.city = Ajax]

\* A top-level make over a different nested make
FullBody ==
  [PlainBody EXCEPT !.transmission = Str(<<"a", "u", "t", "o">>),
                    !.make = Honda,
                    !.status = ACTIVE,
                    !.features = ToyotaFeatures]

NestedBody == [PlainBody EXCEPT !.features = ToyotaFeatures, !.status = ACTIVE]

RequiredKeys == {"title", "vehicle_type", "country_code", "city"}

\* FullBody with one required field missing, null, empty or blank
LackingBodies ==
  {[FullBody EXCEPT ![key] = v] :
     key \in RequiredKeys, v \in {Undef, Null, Str(<<>>), Blank}}

CreateBodies == {PlainBody, FullBody, NestedBody} \cup LackingBodies

StatusOnly(status) == [EmptyBody EXCEPT !.status = status]

\* Payloads of PATCH /cars/:id; the first three name no recognized value
UpdateBodies ==
  {EmptyBody,
   [EmptyBody EXCEPT !.year = Str(<<"x">>)],
   [EmptyBody EXCEPT !.features = [NoFeatures EXCEPT !.k = "null"]],
   [EmptyBody EXCEPT !.make = Kia],
   StatusOnly(INACTIVE)}

PublishBodies ==
  {EmptyBody, StatusOnly(Blank), StatusOnly(ACTIVE), StatusOnly(DRAFT),
   [StatusOnly(ACTIVE) EXCEPT !.make = Kia]}

\* Payloads of POST /host/cars: with every field, without city and
\* country_code, and without one of the three fields the route requires
HostBody == [FullBody EXCEPT !.status = Undef]
HostBodies ==
  {HostBody,
   [HostBody EXCEPT !.city = Undef, !.country_code = Undef],
   [HostBody EXCEPT !.city = Str(<<>>)],
   [HostBody EXCEPT !.transmission = Undef],
   [HostBody EXCEPT !.title = Blank],
   [HostBody EXCEPT !.vehicle_type = Null]}

HostUpdateBodies ==
  {EmptyBody,
   [EmptyBody EXCEPT !.year = Str(<<"x">>)],
   [EmptyBody EXCEPT !.title = Num(5)],
   [EmptyBody EXCEPT !.city = Ajax]}

HostPublishBodies == {EmptyBody, StatusOnly(ACTIVE)}

\* Firebase uids of the callers: two hosts, a user who is no host, a stranger
Uids == {1, 2, 3, 4}

\* Car ids of the requests: every row the store can hold
CarIds == 1..MaxCars

StatusQuery(status) == [EmptyQuery EXCEPT !.status = status]

ListQueries ==
  {EmptyQuery, StatusQuery(Blank), StatusQuery(DRAFT), StatusQuery(INACTIVE),
   StatusQuery(Str(<<" ">> \o ACTIVE.s)),
   [EmptyQuery EXCEPT !.q = Str(<<"c", "a", "r">>)],
   [EmptyQuery EXCEPT !.limit = Str(<<"1">>), !.sort = Str(<<"n", "e", "w", "e", "s", "t">>)]}

\* The whole globe as a viewport
Box(q) ==
  [q EXCEPT !.minLat = Str(<<"-", "9", "0">>), !.maxLat = Str(<<"9", "0">>),
            !.minLng = Str(<<"-", "1", "8", "0">>), !.maxLng = Str(<<"1", "8", "0">>)]

MapQueries ==
  {Box(q) : q \in {EmptyQuery, StatusQuery(Blank), StatusQuery(DRAFT), StatusQuery(INACTIVE)}}
    \cup {EmptyQuery,
          [Box(EmptyQuery) EXCEPT !.maxLat = Undef],
          [Box(EmptyQuery) EXCEPT !.minLng = Str(<<"1", "8", "1">>)],
          [Box(EmptyQuery) EXCEPT !.lat = Str(<<"4", "3">>), !.lng = Str(<<"-", "7", "9">>),
                                  !.radiusKm = Str(<<"5">>)]}

SuggestQueries == {EmptyQuery, [EmptyQuery EXCEPT !.q = Str(<<"c", "a", "r">>)]}

CountryQueries == {EmptyQuery, [EmptyQuery EXCEPT !.country = Str(<<"C", "A">>)]}

Idle == Reply(0, "", <<>>, NoPage, <<>>, {})

Init ==
  /\ cars = <<>>
  /\ now = 1
  /\ req = Request("", 0, 0, EmptyQuery, EmptyBody)
  /\ resp = Idle

\* The exchange ends: the reply has been written to the caller
Close ==
  /\ resp # Idle
  /\ req' = Request("", 0, 0, EmptyQuery, EmptyBody)
  /\ resp' = Idle
  /\ UNCHANGED <<cars, now>>

\* The exchanges are taken one after the other: a request is served when the
\* reply of the one before it has been written
Next ==
  \/ resp = Idle /\ \E q \in ListQueries : ListCars("GET /cars", q)
  \/ resp = Idle /\ \E q \in ListQueries : ListCars("GET /cars/search", q)
  \/ resp = Idle /\ \E q \in MapQueries : MapCars(q)
  \/ resp = Idle /\ \E id \in CarIds : GetCar(id)
  \/ resp = Idle /\ TopCars("GET /cars/featured", EmptyQuery,
                            <<"is_featured DESC">> \o PopularOrder)
  \/ resp = Idle /\ TopCars("GET /cars/popular", EmptyQuery, PopularOrder)
  \/ resp = Idle /\ \E q \in SuggestQueries : SuggestCars(q)
  \/ resp = Idle /\ \E q \in CountryQueries : FilterCars(q)
  \/ resp = Idle /\ \E q \in CountryQueries : StatCars(q)
  \/ resp = Idle /\ \E body \in CreateBodies : CreateCar(body)
  \/ resp = Idle /\ \E id \in CarIds, body \in UpdateBodies : UpdateCar(id, body)
  \/ resp = Idle /\ \E id \in CarIds, body \in PublishBodies : PublishCar(id, body)
  \/ resp = Idle /\ \E id \in CarIds : DeleteCar(id)
  \/ resp = Idle /\ \E id \in CarIds : RestoreCar(id)
  \/ resp = Idle /\ \E uid \in Uids, body \in HostBodies : HostCreate(uid, body)
  \/ resp = Idle /\ \E uid \in Uids, id \in CarIds, body \in HostUpdateBodies :
                      HostUpdate(uid, id, body)
  \/ resp = Idle /\ \E uid \in Uids, id \in CarIds, body \in HostPublishBodies :
                      HostPublish(uid, id, body)
  \/ Close

Spec == Init /\ [][Next]_vars

----------------------------------------------------------------------------
(* The read path over every page, range and viewport: the three search     *)
(* routes on the empty store                                               *)

\* A number as a query string gives it
Text(n) == Str(String(Num(n)))

Unparseable == Str(<<"x">>)

LimitTexts ==
  {Undef, Str(<<>>), Unparseable}
    \cup {Text(n) : n \in {-7, -1, 0, 1, 20, 50, 51, 200, 500, 501}}

OffsetTexts == {Undef, Unparseable} \cup {Text(n) : n \in {-4, -1, 0, 3}}

PageQueries ==
  {[EmptyQuery EXCEPT !.limit = l, !.offset = o] : l \in LimitTexts, o \in OffsetTexts}

BoundTexts == {Undef, Unparseable, Text(0), Text(5), Text(10)}

YearTexts == {Undef, Text(2000), Text(2020)}

RangeQueries ==
  {[EmptyQuery EXCEPT !.minPrice = a, !.maxPrice = b, !.yearMin = c, !.yearMax = d] :
     a \in BoundTexts, b \in BoundTexts, c \in YearTexts, d \in YearTexts}

CoordTexts == {Undef, Unparseable, Text(0), Text(10)}

ViewportQueries ==
  {[EmptyQuery EXCEPT !.minLat = a, !.maxLat = b, !.minLng = c, !.maxLng = d] :
     a \in CoordTexts, b \in CoordTexts, c \in CoordTexts, d \in CoordTexts}
    \cup {Box(q) : q \in PageQueries \cup RangeQueries}

QueryNext ==
  \/ resp = Idle /\ \E q \in PageQueries \cup RangeQueries : ListCars("GET /cars", q)
  \/ resp = Idle /\ \E q \in PageQueries \cup RangeQueries : ListCars("GET /cars/search", q)
  \/ resp = Idle /\ \E q \in ViewportQueries : MapCars(q)
  \/ Close

QuerySpec == Init /\ [][QueryNext]_vars

----------------------------------------------------------------------------
(* Properties of the read path *)

ListOps == {"GET /cars", "GET /cars/search"}
MapOp == "GET /cars/map"

\* The ceiling of an endpoint's limit
Ceiling(op) == IF op = MapOp THEN 500 ELSE 50

\* The number a query parameter asks for, if it asks for one
Asked(v) == parseNumber(v)
Asks(v) == ~IsNullish(parseNumber(v))

\* C3: on the listing, search and map endpoints a limit requested as 0 or
\* negative yields the effective limit 1, a limit above the endpoint's ceiling
\* (50, map 500) yields the ceiling, and on listing and search a negative
\* offset yields the effective offset 0.
LimitAndOffsetClamped ==
  (req.op \in ListOps \cup {MapOp} /\ resp.code = 200) =>
    /\ (Asks(req.q.limit) /\ Asked(req.q.limit).n <= 0) => resp.bound.limit = 1
    /\ (Asks(req.q.limit) /\ Asked(req.q.limit).n > Ceiling(req.op)) =>
         resp.bound.limit = Ceiling(req.op)
    /\ (req.op \in ListOps /\ Asks(req.q.offset) /\ Asked(req.q.offset).n < 0) =>
         resp.bound.offset = 0

\* A query whose bounds min and max are both parseable, with min above max
Inverted(q, min, max) == Asks(q[min]) /\ Asks(q[max]) /\ Asked(q[min]).n > Asked(q[max]).n

\* The query with the values of two parameters exchanged
Exchanged(q, min, max) == [q EXCEPT ![min] = q[max], ![max] = q[min]]

\* The value bound to the placeholder of the clause sql, in a built predicate
BoundTo(w, sql) ==
  {w.params[w.where[j].ph[1]].n : j \in {i \in DOMAIN w.where : w.where[i].sql = sql}}

\* The built predicate of a range whose bounds are a > b is that of the range
\* with the bounds exchanged, and it bounds the column from b to a
RangeSwapped(q, min, max, column) ==
  Inverted(q, min, max) =>
    /\ buildWhere(q) = buildWhere(Exchanged(q, min, max))
    /\ BoundTo(buildWhere(q), column \o " >= $") = {Asked(q[max]).n}
    /\ BoundTo(buildWhere(q), column \o " <= $") = {Asked(q[min]).n}

\* C4: for parseable bounds a > b, the filter built from (min = a, max = b)
\* has the clauses and bound parameters of the filter built from (min = b,
\* max = a), and its effective range is [b, a]; for the price range and for
\* the year range.
InvertedRangeIsSwapped ==
  (req.op \in ListOps \cup {MapOp}) =>
    /\ RangeSwapped(req.q, "minPrice", "maxPrice", "price_per_day")
    /\ RangeSwapped(req.q, "yearMin", "yearMax", "year")

\* A search was served whose price bounds and year bounds are both inverted
InvertedRangeServed ==
  /\ req.op \in ListOps
  /\ resp.code = 200
  /\ Inverted(req.q, "minPrice", "maxPrice")
  /\ Inverted(req.q, "yearMin", "yearMax")

\* A viewport with a side missing or unparseable, or with min above max
BadViewport(q) ==
  \/ \E side \in {"minLat", "maxLat", "minLng", "maxLng"} : ~Asks(q[side])
  \/ Asked(q.minLat).n > Asked(q.maxLat).n
  \/ Asked(q.minLng).n > Asked(q.maxLng).n

\* C10: the map search fails with a validation error, with no store query
\* issued, when any of minLat, maxLat, minLng, maxLng is missing or
\* unparseable or a min exceeds its max; otherwise it issues its query.
ViewportValidated ==
  (req.op = MapOp) =>
    IF BadViewport(req.q)
    THEN resp.code = 400 /\ resp.issued = <<>> /\ resp.items = <<>>
    ELSE resp.code = 200 /\ resp.issued = <<"SELECT">>

\* A map search with four parseable sides was refused for minLat > maxLat
InvertedViewportRefused ==
  /\ req.op = MapOp
  /\ \A side \in {"minLat", "maxLat", "minLng", "maxLng"} : Asks(req.q[side])
  /\ Asked(req.q.minLat).n > Asked(req.q.maxLat).n
  /\ resp.code = 400

ReadOps ==
  ListOps \cup {MapOp, "GET /cars/:id", "GET /cars/featured", "GET /cars/popular",
                "GET /cars/search/suggest", "GET /cars/filters", "GET /cars/stats"}

Live == {j \in DOMAIN cars : cars[j].deleted_at = Null}

\* C1: in every reachable store, no read (list, search, map, by id, featured,
\* popular, suggest, filters, stats) returns or counts a row whose deleted_at
\* is set, whatever its filter.
DeletedNeverRead ==
  (req.op \in ReadOps) =>
    /\ resp.ids \subseteq Live
    /\ \A j \in DOMAIN resp.items : resp.items[j].deleted_at = Null
    /\ resp.page.total <= Cardinality(Live)

\* A read returned rows from a store that holds a deleted row, active when it
\* was deleted
DeletedRowSkipped ==
  /\ req.op \in ReadOps
  /\ resp.items # <<>>
  /\ \E j \in DOMAIN cars : cars[j].deleted_at # Null /\ cars[j].status = ACTIVE

\* The clauses the search of req emitted
Emitted == IF req.op = MapOp THEN mapWhere(req.q).where ELSE buildWhere(req.q).where

\* C2: a search or map query whose status parameter is absent or blank
\* returns only rows of status 'active'; one with a non-blank status emits no
\* implicit 'active' restriction and returns only rows of exactly that status.
StatusFilterRespected ==
  (req.op \in ListOps \cup {MapOp} /\ resp.code = 200) =>
    LET status == normalizeStr(req.q.status) IN
    IF status = Undef
    THEN \A j \in DOMAIN resp.items : resp.items[j].status = ACTIVE
    ELSE /\ \A j \in DOMAIN resp.items : resp.items[j].status = status
         /\ \A j \in DOMAIN Emitted : Emitted[j].sql # "status = 'active'"

\* A map query for status draft returned rows, and left out an active row of
\* the viewport
DraftRowsFound ==
  /\ req.op = MapOp
  /\ normalizeStr(req.q.status) = DRAFT
  /\ resp.items # <<>>
  /\ \E j \in Live : cars[j].status = ACTIVE /\ cars[j].pickup_lat # Null

----------------------------------------------------------------------------
(* Properties of the write path *)

PublishOps == {"PATCH /cars/:id/publish", "POST /host/cars/:id/publish"}

\* A payload with no key but status
OnlyStatus(body) == [body EXCEPT !.status = Undef] = EmptyBody

\* The columns a publish resolves, each with the features sub-bag that
\* nests it
ResolvedCols ==
  [make |-> "vehicle", model |-> "vehicle", trim |-> "vehicle", year |-> "vehicle",
   body_type |-> "vehicle", fuel_type |-> "vehicle", pickup_city |-> "pickup",
   pickup_state |-> "pickup", pickup_country |-> "pickup",
   pickup_postal_code |-> "pickup"]

\* The value a features bag nests for a column: a number, or a string that
\* is not blank (trimmed); Null if it nests none
Nested(features, col) ==
  LET v == features[ResolvedCols[col]][col] IN
  IF v.k = "number" THEN v
  ELSE IF v.k = "string" /\ trim(v.s) # <<>> THEN Str(trim(v.s))
  ELSE Null

\* C5: a publish that supplies only a status, on a live record whose stored
\* features nest a value for a field, leaves the field's column equal to the
\* nested value and leaves the stored features as they were.
PublishKeepsNested ==
  [][(resp = Idle /\ req'.op \in PublishOps /\ resp'.code = 200 /\ OnlyStatus(req'.body)) =>
       LET before == cars[req'.id]
           after == cars'[req'.id]
       IN /\ after.features = before.features
          /\ \A col \in DOMAIN ResolvedCols :
               Nested(before.features, col) # Null =>
                 after[col] = Nested(before.features, col)]_vars

\* A publish with only a status was applied to the record created with the
\* top-level make Honda over the nested make Toyota
NestedMakePublished ==
  /\ req.op = "PATCH /cars/:id/publish"
  /\ resp.code = 200
  /\ OnlyStatus(req.body)
  /\ cars[req.id].host_user_id = Null
  /\ cars[req.id].transmission # Null
  /\ cars[req.id].features.vehicle.make = Toyota
  /\ cars[req.id].make = Toyota

\* A payload that leaves one of the keys missing, null or blank
Lacks(body, keys) ==
  \E key \in keys :
    IsNullish(body[key]) \/ (body[key].k = "string" /\ trim(body[key].s) = <<>>)

\* C7: a public create whose payload leaves title, vehicle_type, country_code
\* or city missing or blank is refused with the validation error that names
\* the four required fields; no INSERT is issued and the rows are unchanged.
CreateRequiresFields ==
  [][(resp = Idle /\ req'.op = "POST /cars" /\ Lacks(req'.body, RequiredKeys)) =>
       /\ resp'.code = 400
       /\ resp'.message = "title, vehicle_type, country_code, and city are required"
       /\ resp'.issued = <<>>
       /\ cars' = cars]_vars

\* A create whose only missing field is city was refused, with rows stored
CreateWithoutCityRefused ==
  /\ req.op = "POST /cars"
  /\ req.body.city = Undef
  /\ ~Lacks(req.body, RequiredKeys \ {"city"})
  /\ resp.code = 400
  /\ cars # <<>>

\* The caller of a host route has a host profile
ByHost(uid) == getHostByUserId(getDbUserIdByFirebaseUid(uid))

HostRequiredKeys == {"title", "vehicle_type", "transmission"}

\* C8 (as the code has it): a host create by a caller with a host profile is
\* refused with a validation error, and no row is inserted, unless title,
\* vehicle_type and transmission are all non-empty; with the three present
\* it inserts a row, city and country_code present or not.
HostCreateRequiresThree ==
  [][(resp = Idle /\ req'.op = "POST /host/cars" /\ ByHost(req'.uid)) =>
       IF Lacks(req'.body, HostRequiredKeys)
       THEN /\ resp'.code = 400
            /\ resp'.issued = <<"SELECT users", "SELECT hosts">>
            /\ cars' = cars
       ELSE /\ resp'.code = 201
            /\ Len(cars') = Len(cars) + 1]_vars

\* C8: a host create is refused with a validation error, and no row is
\* inserted, unless title, vehicleType, countryCode, city and transmission
\* are all non-empty.
HostCreateRequiresFive ==
  [][(resp = Idle /\ req'.op = "POST /host/cars" /\ ByHost(req'.uid)
        /\ Lacks(req'.body, HostRequiredKeys \cup {"country_code", "city"})) =>
       /\ resp'.code = 400
       /\ cars' = cars]_vars

\* A host's create with title and vehicle_type but no transmission was refused
HostCreateRefused ==
  /\ req.op = "POST /host/cars"
  /\ ByHost(req.uid)
  /\ req.body.transmission = Undef
  /\ ~Lacks(req.body, {"title", "vehicle_type"})
  /\ resp.code = 400

\* A canonical column map with no key
EmptyMap(patch) ==
  /\ \A col \in PatchCols : patch[col] = Undef
  /\ patch.features.k = "undefined"

\* C9: an update whose payload yields an empty canonical column map is
\* refused with a validation error; no UPDATE is issued and the rows,
\* updated_at included, are unchanged.
EmptyUpdateRefused ==
  [][(/\ resp = Idle
      /\ \/ req'.op = "PATCH /cars/:id" /\ EmptyMap(sanitizeUpsert(req'.body, FALSE))
         \/ /\ req'.op = "PATCH /host/cars/:id"
            /\ getDbUserIdByFirebaseUid(req'.uid) # Null
            /\ EmptyMap(sanitizeCarPatch(req'.body))) =>
       /\ resp'.code = 400
       /\ resp'.message \in {"No fields provided to update", "No valid updates provided."}
       /\ \A j \in DOMAIN resp'.issued : resp'.issued[j] # "UPDATE"
       /\ cars' = cars]_vars

\* An update of a live row with an unparseable year, its only key, was refused
UnparseableUpdateRefused ==
  /\ req.op = "PATCH /cars/:id"
  /\ req.body = [EmptyBody EXCEPT !.year = Unparseable]
  /\ req.id \in Live
  /\ resp.code = 400

----------------------------------------------------------------------------
(* The reconciliation of cars.ts over the shapes of a payload: each step    *)
(* applies one of its functions to the payload drawn at the start          *)

Sedan == Str(<<"s", "e", "d", "a", "n">>)
Coupe == Str(<<"c", "o", "u", "p", "e">>)
Suv == Str(<<"s", "u", "v">>)

\* A make and a year, top-level and nested
VehicleBodies ==
  {[EmptyBody EXCEPT !.make = a, !.year = c,
                     !.features = [EmptyFeatures EXCEPT !.vehicle.make = b,
                                                        !.vehicle.year = d]] :
     a \in {Undef, Null, Blank, Honda}, b \in {Undef, Toyota},
     c \in {Undef, Null, Str(<<>>), Num(2019), Text(2019)}, d \in {Undef, Num(2020)}}

\* A pickup city: top-level, nested under pickup, nested under address, and
\* the generic city
PickupBodies ==
  {[EmptyBody EXCEPT !.pickup_city = a, !.city = d,
                     !.features = [EmptyFeatures EXCEPT !.pickup.pickup_city = b,
                                                        !.address.city = c]] :
     a \in {Undef, Str(<<"A">>)}, b \in {Undef, Str(<<"B">>)},
     c \in {Undef, Str(<<"C">>)}, d \in {Undef, Str(<<"D">>)}}

\* A body type, top-level and nested, with and without a vehicle_type
TypeBodies ==
  {[EmptyBody EXCEPT !.body_type = a, !.vehicle_type = c,
                     !.features = [EmptyFeatures EXCEPT !.vehicle.body_type = b]] :
     a \in {Undef, Sedan}, b \in {Undef, Coupe}, c \in {Undef, Suv}}

ReconcileBodies == VehicleBodies \cup PickupBodies \cup TypeBodies

ReconcileInit ==
  /\ cars = <<>>
  /\ now = 1
  /\ req \in {Request("reconcile", 0, 0, EmptyQuery, body) : body \in ReconcileBodies}
  /\ resp = Idle

\* The value of one function of the reconciliation, as a reply
Value(function, value) == Reply(0, function, <<value>>, NoPage, <<>>, {})

Denormalize ==
  /\ resp = Idle
  /\ resp' = Value("denormCarColumnsFromBody", denormCarColumnsFromBody(req.body))
  /\ UNCHANGED <<cars, now, req>>

SanitizeCreate ==
  /\ resp = Idle
  /\ resp' = Value("sanitizeUpsert create", sanitizeUpsert(req.body, TRUE))
  /\ UNCHANGED <<cars, now, req>>

SanitizeUpdate ==
  /\ resp = Idle
  /\ resp' = Value("sanitizeUpsert update", sanitizeUpsert(req.body, FALSE))
  /\ UNCHANGED <<cars, now, req>>

ReconcileNext == Denormalize \/ SanitizeCreate \/ SanitizeUpdate

ReconcileSpec == ReconcileInit /\ [][ReconcileNext]_vars

\* What a payload value presents for a column: a number, a numeric string
\* (for year), a string that is not blank; Null if it presents nothing
Presented(v, col) ==
  IF v.k = "number" THEN v
  ELSE IF v.k = "string" /\ trim(v.s) # <<>>
  THEN (IF col = "year" THEN OrNull(parseNumber(v)) ELSE Str(trim(v.s)))
  ELSE Null

\* The places of a payload that hold a column, in the order of precedence:
\* top-level, the features sub-bags, and for pickup columns the generic key
Places(body, col) ==
  LET f == body.features IN
  CASE col \in {"make", "model", "trim", "year", "body_type", "fuel_type"} ->
         <<body[col], f.vehicle[col]>>
    [] col = "pickup_city" ->
         <<body.pickup_city, f.pickup.pickup_city, f.address.city, body.city>>
    [] col = "pickup_state" ->
         <<body.pickup_state, f.pickup.pickup_state, f.address.province, body.area>>
    [] col = "pickup_country" ->
         <<body.pickup_country, f.pickup.pickup_country, f.address.country_code,
           body.country_code>>
    [] col = "pickup_postal_code" ->
         <<body.pickup_postal_code, f.pickup.pickup_postal_code, f.address.postal_code>>

RECURSIVE FirstPresent(_, _)
FirstPresent(places, col) ==
  IF places = <<>> THEN Null
  ELSE IF Presented(Head(places), col) # Null THEN Presented(Head(places), col)
  ELSE FirstPresent(Tail(places), col)

\* C6: for every payload and every reconciled column (make, model, trim,
\* year, body_type, fuel_type, pickup_*), the resolved value is the first
\* present value in the order top-level scalar, nested value of the features
\* sub-bag, and (pickup columns) the generic city / area / country_code.
FirstPresentWins ==
  (resp.message \in {"denormCarColumnsFromBody", "sanitizeUpsert create",
                    "sanitizeUpsert update"}) =>
    \A col \in DOMAIN ResolvedCols :
      FirstPresent(Places(req.body, col), col) # Null =>
        resp.items[1][col] = FirstPresent(Places(req.body, col), col)

----------------------------------------------------------------------------
(* The map route with a radius, over rows at and around the radius *)

\* Payloads of POST /cars: a listed car picked up at (lat, 0), and one with
\* no pickup coordinates
RadiusBodies ==
  {[PlainBody EXCEPT !.status = ACTIVE, !.pickup_lat = lat, !.pickup_lng = Num(0)] :
     lat \in {Undef, Num(0), Num(1), Num(2), Num(50), Num(51)}}

\* A viewport from the equator to latitude top, with a center at (0, 0)
Around(top, radiusKm) ==
  [Box(EmptyQuery) EXCEPT !.minLat = Text(0), !.maxLat = Text(top),
                          !.lat = Text(0), !.lng = Text(0), !.radiusKm = radiusKm]

RadiusQueries ==
  {Around(top, r) : top \in {1, 90},
                    r \in {Undef, Unparseable, Text(0), Text(1), Text(50), Text(60)}}

RadiusNext ==
  \/ resp = Idle /\ \E body \in RadiusBodies : CreateCar(body)
  \/ resp = Idle /\ \E q \in RadiusQueries : MapCars(q)
  \/ Close

RadiusSpec == Init /\ [][RadiusNext]_vars

\* The radius the map route searches within: radiusKm clamped to 1..50
ClampedRadius(q) == Max(1, Min(50, parseNumber(q.radiusKm).n))

HasRadius(q) ==
  /\ ~IsNullish(parseNumber(q.lat))
  /\ ~IsNullish(parseNumber(q.lng))
  /\ ~IsNullish(parseNumber(q.radiusKm))

\* The distance of a stored row from the center of the query
FromCenter(row, q) ==
  GeoDistanceKm(row.pickup_lat.n, row.pickup_lng.n,
                parseNumber(q.lat).n, parseNumber(q.lng).n)

\* A row the radius search is to return: it satisfies the base predicate,
\* has both coordinates, lies in the viewport and within the clamped radius
InRadius(row, q) ==
  /\ row.deleted_at = Null
  /\ row.status = ACTIVE
  /\ row.pickup_lat # Null /\ row.pickup_lng # Null
  /\ parseNumber(q.minLat).n <= row.pickup_lat.n
  /\ row.pickup_lat.n <= parseNumber(q.maxLat).n
  /\ parseNumber(q.minLng).n <= row.pickup_lng.n
  /\ row.pickup_lng.n <= parseNumber(q.maxLng).n
  /\ FromCenter(row, q) <= ClampedRadius(q)

\* C11: a map query with lat, lng and radiusKm returns exactly the rows that
\* satisfy the base predicate, have both pickup coordinates, lie inside the
\* bounding box and lie within the radius clamped to 1..50 km of the center:
\* a row at the clamped radius is returned, a row one km beyond it is not.
RadiusWithinViewport ==
  (req.op = "GET /cars/map" /\ resp.code = 200 /\ HasRadius(req.q)) =>
    resp.ids = {j \in 1..Len(cars) : InRadius(cars[j], req.q)}

\* radiusKm = 60 over the whole viewport, with a row 50 km from the center
\* (returned) and a row 51 km from it (not returned)
BoundaryRowReturned ==
  /\ req.op = "GET /cars/map" /\ resp.code = 200
  /\ req.q = Around(90, Text(60))
  /\ Len(cars) = 2
  /\ cars[1].pickup_lat = Num(50) /\ cars[2].pickup_lat = Num(51)
  /\ resp.ids = {1}

----------------------------------------------------------------------------
(* The image fields of a listing as the routes send them *)

HTTP == <<"h", "t", "t", "p", ":", "/", "/">>
HTTPS == <<"h", "t", "t", "p", "s", ":", "/", "/">>
TRUETEXT == <<"t", "r", "u", "e">>
FALSETEXT == <<"f", "a", "l", "s", "e">>
\* "/cars/placeholder-car.jpg"
PLACEHOLDER ==
  <<"/", "c", "a", "r", "s", "/", "p", "l", "a", "c", "e", "h", "o", "l", "d", "e", "r", "-",
   "c", "a", "r", ".", "j", "p", "g">>
APATH == <<"a", ".", "j", "p", "g">>
AURL == <<"h", "t", "t", "p", ":", "/", "/", "x", "/", "a", ".", "j", "p", "g">>
ABASE == <<"h", "t", "t", "p", ":", "/", "/", "m">>

\* The truth of a value in a condition (`v ? a : b`, `!!v`)
Truthy(v) ==
  CASE v.k = "string" -> v.s # <<>>
    [] v.k = "number" -> v.n # 0
    [] v.k = "boolean" -> v.n = 1
    [] v.k = "object" -> TRUE
    [] OTHER -> FALSE

\* s.replace(/\/$/, "")
DropLastSlash(s) == IF s # <<>> /\ s[Len(s)] = "/" THEN SubSeq(s, 1, Len(s) - 1) ELSE s

\* s.replace(/^\//, "")
DropFirstSlash(s) == IF s # <<>> /\ Head(s) = "/" THEN Tail(s) ELSE s

\* /^https?:\/\//i.test(s)
IsHttpUrl(s) ==
  \/ LOWER(SubSeq(s, 1, Min(Len(s), 7))) = HTTP
  \/ LOWER(SubSeq(s, 1, Min(Len(s), 8))) = HTTPS

\* process.env.MEDIA_PUBLIC_BASE_URL?.replace(/\/$/, "")
mediaBase(env) == IF env = Undef THEN Undef ELSE Str(DropLastSlash(env.s))

\* has with the flag of the row ignored
imageAssumed(row) == TRUE

\* row?.has_image === true || row?.has_image === "true"
hasImage(row) == row.has_image = Bool(TRUE) \/ row.has_image = Str(TRUETEXT)

computeImageUrl(row, env) ==
  LET base == mediaBase(env)
      placeholder == IF Truthy(base) THEN Str(base.s \o PLACEHOLDER) ELSE Null
      has == hasImage(row)
      isPublic == row.image_public # Bool(FALSE) /\ row.image_public # Str(FALSETEXT)
      raw == IF Truthy(row.image_path) THEN trim(String(row.image_path)) ELSE <<>>
  IN IF has /\ isPublic /\ IsHttpUrl(raw) THEN Str(raw)
     ELSE IF Truthy(base) /\ has /\ isPublic /\ raw # <<>>
     THEN Str(DropLastSlash(base.s) \o <<"/">> \o DropFirstSlash(raw))
     ELSE placeholder

\* toCarItem: hasImage, imagePublic, imagePath and imageUrl
toCarItem(row, env) ==
  [hasImage |-> Truthy(row.has_image),
   imagePublic |-> row.image_public # Bool(FALSE),
   imagePath |-> OrNull(row.image_path),
   imageUrl |-> computeImageUrl(row, env)]

\* Stored image paths: none, empty, relative, rooted, and absolute URLs
ImagePaths ==
  {Null, Str(<<>>), Str(APATH), Str(<<"/">> \o APATH), Str(<<" ">> \o APATH),
   Str(AURL), Str(toUpperCase(AURL)), Str(<<"h", "t", "t", "p", "s">> \o SubSeq(AURL, 5, Len(AURL)))}

\* MEDIA_PUBLIC_BASE_URL: unset, empty, and set without and with a last slash
MediaBases == {Undef, Str(<<>>), Str(ABASE), Str(ABASE \o <<"/">>)}

ImageRows ==
  [has_image : {Bool(TRUE), Bool(FALSE), Null, Str(TRUETEXT)},
   image_public : {Bool(TRUE), Bool(FALSE), Null},
   image_path : ImagePaths]

ImageInit ==
  /\ cars = <<>>
  /\ now = 1
  /\ req \in {[op |-> "toCarItem", row |-> row, env |-> env] :
                row \in ImageRows, env \in MediaBases}
  /\ resp = Idle

Project ==
  /\ resp = Idle
  /\ resp' = Value("toCarItem", toCarItem(req.row, req.env))
  /\ UNCHANGED <<cars, now, req>>

ImageNext == Project

ImageSpec == ImageInit /\ [][ImageNext]_vars

\* The placeholder of a deployment, and a stored path resolved against its
\* media base
PlaceholderOf(env) ==
  IF env = Undef \/ DropLastSlash(env.s) = <<>> THEN Null
  ELSE Str(DropLastSlash(env.s) \o PLACEHOLDER)

ResolvedAgainst(path, env) ==
  Str((IF env = Undef THEN <<>> ELSE DropLastSlash(env.s))
        \o <<"/">> \o DropFirstSlash(trim(path.s)))

\* C12: for a row whose has_image is false the projected imageUrl is the
\* placeholder URL or null; it is never the stored image path, trimmed or
\* not, and never that path resolved against the media base.
ImagelessNeverResolved ==
  (resp.message = "toCarItem" /\ req.row.has_image = Bool(FALSE)) =>
    LET url == resp.items[1].imageUrl
        path == req.row.image_path
    IN /\ url \in {Null, PlaceholderOf(req.env)}
       /\ (path # Null /\ trim(path.s) # <<>>) =>
            /\ url # path
            /\ url # Str(trim(path.s))
            /\ url # ResolvedAgainst(path, req.env)

\* A public row with a stored path and has_image false, under a media base:
\* the placeholder is sent
PlaceholderSent ==
  /\ resp.message = "toCarItem"
  /\ req.row = [has_image |-> Bool(FALSE), image_public |-> Bool(TRUE),
                image_path |-> Str(<<"/">> \o APATH)]
  /\ req.env = Str(ABASE \o <<"/">>)
  /\ resp.items[1].imageUrl = Str(ABASE \o PLACEHOLDER)

----------------------------------------------------------------------------
(* The paginated search as its two store calls, with the statements of     *)
(* other exchanges taking effect between them                              *)

Awaiting == "awaiting rows"

\* GET /cars and GET /cars/search up to the first await: the count query
CountCars(op, q) ==
  \E w \in {buildWhere(q)} :
  LET limit == pageLimit(q, 20, 50)
      offset == pageOffset(q)
      counted == Matching(cars, w.where, w.params)
  IN /\ req' = Request(op, 0, 0, q, EmptyBody)
     /\ resp' = Bounded(Reply(0, Awaiting, <<>>,
                              [limit |-> limit, offset |-> offset,
                               total |-> Cardinality(counted)],
                              <<"SELECT COUNT">>, counted),
                        limit, offset)
     /\ UNCHANGED <<cars, now>>

\* ... and from there on: the row query, under the same predicate and
\* parameters, and the reply
RowsCars ==
  /\ resp.message = Awaiting
  /\ \E w \in {buildWhere(req.q)} :
     \E items \in Select(cars, w.where, w.params, buildOrder(req.q.sort),
                         resp.page.limit, resp.page.offset) :
       resp' = [resp EXCEPT !.code = 200, !.message = "", !.items = items,
                            !.issued = Append(@, "SELECT"),
                            !.ids = @ \cup IdsOf(items)]
  /\ UNCHANGED <<cars, now, req>>

\* The UPDATE of a DELETE /cars/:id of another exchange takes effect while
\* the search awaits its rows (the log of the search records it)
OtherDelete(id) ==
  LET b == LiveIdWhere(id)
      res == ExecUpdate(b.where, b.params,
               [j \in 1..Len(cars) |->
                  [cars[j] EXCEPT !.deleted_at = Num(now), !.updated_at = Num(now)]])
  IN /\ resp.message = Awaiting
     /\ res.ids # {}
     /\ now < MaxClock
     /\ cars' = res.table
     /\ now' = now + 1
     /\ resp' = [resp EXCEPT !.issued = Append(@, "other: UPDATE")]
     /\ UNCHANGED req

\* The INSERT of a POST /cars of another exchange takes effect while the
\* search awaits its rows
OtherInsert(body) ==
  \E patch \in {sanitizeUpsert(body, TRUE)} :
     /\ resp.message = Awaiting
     /\ validateUpsertSanitized(patch, TRUE).ok
     /\ Len(cars) < MaxCars
     /\ now < MaxClock
     /\ cars' = Append(cars, InsertedRow(Len(cars) + 1, Null, patch))
     /\ now' = now + 1
     /\ resp' = [resp EXCEPT !.issued = Append(@, "other: INSERT")]
     /\ UNCHANGED req

PagingBodies == {PlainBody, [PlainBody EXCEPT !.status = ACTIVE]}

PagingQueries ==
  {[EmptyQuery EXCEPT !.limit = l, !.offset = o] :
     l \in {Undef, Text(1)}, o \in {Undef, Text(1), Text(3)}}

PagingNext ==
  \/ resp = Idle /\ \E body \in PagingBodies : CreateCar(body)
  \/ resp = Idle /\ \E q \in PagingQueries : CountCars("GET /cars", q)
  \/ resp = Idle /\ \E q \in PagingQueries : CountCars("GET /cars/search", q)
  \/ \E id \in CarIds : OtherDelete(id)
  \/ \E body \in PagingBodies : OtherInsert(body)
  \/ RowsCars
  \/ Close

PagingSpec == Init /\ [][PagingNext]_vars

\* No statement of another exchange took effect between the count query and
\* the row query of the search replied to
Undisturbed == \A n \in 1..Len(resp.issued) : resp.issued[n] \in {"SELECT COUNT", "SELECT"}

\* C13: the count query and the row query of a paginated search run under
\* the same predicate and parameters: when no write takes effect between
\* them the page holds min(limit, max(0, total - offset)) items and every
\* item satisfies the counted predicate, so a total that disagrees with the
\* page is seen only after a write took effect between the two queries.
PageAgreesWithTotal ==
  (req.op \in {"GET /cars", "GET /cars/search"} /\ resp.code = 200 /\ Undisturbed) =>
    LET w == buildWhere(req.q) IN
    /\ resp.issued = <<"SELECT COUNT", "SELECT">>
    /\ Len(resp.items) =
         Min(resp.page.limit, Max(0, resp.page.total - resp.page.offset))
    /\ \A j \in 1..Len(resp.items) :
         \A n \in 1..Len(w.where) : Holds(resp.items[j], w.where[n], w.params)

\* Two listed cars, the second page of one: one item of a total of two
SecondPageServed ==
  /\ req.op = "GET /cars/search" /\ resp.code = 200 /\ Undisturbed
  /\ resp.page = [limit |-> 1, offset |-> 1, total |-> 2]
  /\ Len(resp.items) = 1

----------------------------------------------------------------------------
(* The write routes over payloads whose numbers lie outside their ranges *)

\* One number of a payload outside its range (and a year inside it)
OutOfRangeFields ==
  {<<"seats", Text(0)>>, <<"seats", Num(100)>>,
   <<"year", Num(1800)>>, <<"year", Text(3000)>>, <<"year", Num(2020)>>,
   <<"price_per_day", Num(-1)>>, <<"price_per_day", Num(2000000)>>,
   <<"pickup_lat", Num(91)>>, <<"pickup_lng", Text(-181)>>}

\* The payload base with one such number
WithField(base) == {[base EXCEPT ![f[1]] = f[2]] : f \in OutOfRangeFields}

RangeNext ==
  \/ resp = Idle /\ \E body \in WithField(PlainBody) : CreateCar(body)
  \/ resp = Idle /\ \E id \in CarIds, body \in WithField(EmptyBody) : UpdateCar(id, body)
  \/ resp = Idle /\ \E id \in CarIds, body \in WithField(StatusOnly(ACTIVE)) :
                      PublishCar(id, body)
  \/ resp = Idle /\ \E body \in WithField(HostBody) : HostCreate(1, body)
  \/ resp = Idle /\ \E id \in CarIds, body \in WithField(EmptyBody) : HostUpdate(1, id, body)
  \/ resp = Idle /\ \E id \in CarIds, body \in WithField(EmptyBody) : HostPublish(1, id, body)
  \/ Close

RangeSpec == Init /\ [][RangeNext]_vars

\* v is null or a number of lo..hi
NullOrWithin(v, lo, hi) == v = Null \/ (v.k = "number" /\ lo <= v.n /\ v.n <= hi)

\* C14: after any sequence of successful creates, updates and publishes
\* through any write route, every stored row's non-null seats lies in 1..99,
\* year in 1950..currentYear + 1, price_per_day in 0..1000000, pickup_lat in
\* -90..90 and pickup_lng in -180..180.
StoredNumbersInRange ==
  \A j \in 1..Len(cars) :
    /\ NullOrWithin(cars[j].seats, 1, 99)
    /\ NullOrWithin(cars[j].year, 1950, ThisYear)
    /\ NullOrWithin(cars[j].price_per_day, 0, 1000000)
    /\ NullOrWithin(cars[j].pickup_lat, -90, 90)
    /\ NullOrWithin(cars[j].pickup_lng, -180, 180)

\* The ranges of the clamped columns
RangeOf(col) ==
  CASE col = "seats" -> [lo |-> 1, hi |-> 99]
    [] col = "year" -> [lo |-> 1950, hi |-> ThisYear]
    [] col = "price_per_day" -> [lo |-> 0, hi |-> 1000000]

\* The payload of the request carries a parseable col outside its range
CarriesOutOfRange(col) ==
  LET n == parseIntLike(req.body[col]) IN
  ~IsNullish(n) /\ (n.n < RangeOf(col).lo \/ n.n > RangeOf(col).hi)

\* The request is an update of a row it can address: a live row, and on the
\* host route a row of the caller
AddressedUpdate ==
  /\ req.op \in {"PATCH /cars/:id", "PATCH /host/cars/:id"}
  /\ req.id \in 1..Len(cars)
  /\ cars[req.id].deleted_at = Null
  /\ req.op = "PATCH /host/cars/:id" =>
       cars[req.id].host_user_id = getDbUserIdByFirebaseUid(req.uid)

\* C15: an update whose payload carries a parseable seats, year or
\* price_per_day outside its range is not rejected: it succeeds and the
\* value written is the nearest bound of the range.
OutOfRangeUpdateClamped ==
  \A col \in {"seats", "year", "price_per_day"} :
    (AddressedUpdate /\ CarriesOutOfRange(col)) =>
      /\ resp.code = 200
      /\ cars[req.id][col] =
           Num(clamp(parseIntLike(req.body[col]).n, RangeOf(col).lo, RangeOf(col).hi))

----------------------------------------------------------------------------
(* The statements the routes compile, as text and bound parameters *)

\* rowsSql of GET /cars: the WHERE clauses (each with the numbers of its
\* placeholders), the ORDER BY terms, LIMIT and OFFSET, and the parameters
rowsSql(q) ==
  LET w == buildWhere(q) IN
  [where |-> w.where, orderBy |-> buildOrder(q.sort),
   limit |-> pageLimit(q, 20, 50), offset |-> pageOffset(q), params |-> w.params]

\* The UPDATE of PATCH /cars/:id: the columns of its SET list, its WHERE
\* clauses and its parameters; no statement when the route replies 400
updateSql(id, body) ==
  LET patch == sanitizeUpsert(body, FALSE)
      keys == PatchKeys(patch)
      b == LiveIdWhere(id)
  IN IF ~validateUpsertSanitized(patch, FALSE).ok \/ keys = {}
     THEN [set |-> {}, where |-> <<>>, params |-> {}]
     ELSE [set |-> keys \cup {"updated_at"}, where |-> b.where,
           params |-> {patch[key] : key \in keys} \cup {Num(id)}]

USA == Str(<<"U", "S", "A">>)
CA == Str(<<"C", "A">>)

SqlQueries ==
  {[EmptyQuery EXCEPT !.country = a, !.seats = b, !.hasImage = c, !.limit = d, !.q = e] :
     a \in {Undef, Blank, CA, USA},
     b \in {Undef, Unparseable, Text(5)},
     c \in {Undef, Str(TRUETEXT), Str(FALSETEXT), Str(<<"y", "e", "s">>)},
     d \in {Undef, Text(1), Text(2)},
     e \in {Undef, Kia, Honda}}

SqlBodies ==
  {[EmptyBody EXCEPT !.make = a, !.year = b] :
     a \in {Undef, Blank, Kia, Honda},
     b \in {Undef, Unparseable, Num(2020), Text(2021)}}

SqlInit ==
  /\ cars = <<>>
  /\ now = 1
  /\ req \in {Request("GET /cars", 0, 0, q, EmptyBody) : q \in SqlQueries}
               \cup {Request("PATCH /cars/:id", 1, 0, EmptyQuery, body) : body \in SqlBodies}
  /\ resp = Idle

CompileSearch ==
  /\ resp = Idle
  /\ req.op = "GET /cars"
  /\ resp' = Value("rowsSql", rowsSql(req.q))
  /\ UNCHANGED <<cars, now, req>>

CompileUpdate ==
  /\ resp = Idle
  /\ req.op = "PATCH /cars/:id"
  /\ resp' = Value("UPDATE", updateSql(req.id, req.body))
  /\ UNCHANGED <<cars, now, req>>

SqlNext == CompileSearch \/ CompileUpdate

SqlSpec == SqlInit /\ [][SqlNext]_vars

\* Which filters of a query are sent at all (and its sort key)
PresenceOf(q) == [key \in QueryKeys |-> IF key = "sort" THEN q.sort ELSE Bool(q[key] # Undef)]

\* Which filters of a query take effect: a text that is not blank, a number
\* that parses, hasImage "true" or "false" (and which), and the sort key
ShapeOf(q) ==
  [key \in QueryKeys |->
     IF key = "sort" THEN q.sort
     ELSE IF key = "hasImage"
     THEN (IF q.hasImage \in {Str(TRUETEXT), Str(FALSETEXT)} THEN q.hasImage ELSE Undef)
     ELSE IF key \in {"seats", "yearMin", "yearMax"} THEN Bool(~IsNullish(parseIntLike(q[key])))
     ELSE IF key \in {"minPrice", "maxPrice"} THEN Bool(~IsNullish(parseNumber(q[key])))
     ELSE IF key \in {"limit", "offset"} THEN Undef
     ELSE Bool(normalizeStr(q[key]) # Undef)]

\* Which fields of an update payload are sent, and which take effect
BodyPresenceOf(body) == [key \in BodyKeys |-> body[key] # Undef]
BodyShapeOf(body) ==
  [key \in BodyKeys |->
     IF key = "year" THEN ~IsNullish(parseIntLike(body.year))
     ELSE body[key] # Undef /\ (key = "make" => pickString(body.make) # Null)]

\* The text of a compiled statement: all of it but the bound parameters
TextOf(sql) == [key \in DOMAIN sql \ {"params"} |-> sql[key]]

\* C16: the text compiled for a read or a write is fixed by which filters or
\* fields take effect (and by the sort key and the hasImage flag): two
\* requests that differ only in the values of their effective filters or
\* fields compile to the same clauses, and the values are bound as
\* parameters; LIMIT and OFFSET carry the clamped integers.
TextFollowsShape ==
  /\ resp.message = "rowsSql" =>
       \A q \in SqlQueries :
         ShapeOf(q) = ShapeOf(req.q) =>
           /\ rowsSql(q).where = resp.items[1].where
           /\ rowsSql(q).orderBy = resp.items[1].orderBy
           /\ resp.items[1].limit \in 1..50 /\ resp.items[1].offset >= 0
  /\ resp.message = "UPDATE" =>
       \A body \in SqlBodies :
         BodyShapeOf(body) = BodyShapeOf(req.body) =>
           TextOf(updateSql(req.id, body)) = TextOf(resp.items[1])

\* The statement of the claim: the text is fixed by which parameters are
\* present
TextFollowsPresence ==
  /\ resp.message = "rowsSql" =>
       \A q \in SqlQueries :
         PresenceOf(q) = PresenceOf(req.q) => TextOf(rowsSql(q)) = TextOf(resp.items[1])
  /\ resp.message = "UPDATE" =>
       \A body \in SqlBodies :
         BodyPresenceOf(body) = BodyPresenceOf(req.body) =>
           TextOf(updateSql(req.id, body)) = TextOf(resp.items[1])

\* A search by country and free text: two clauses, the values bound as $1
\* and $2
CountryBoundAsParameter ==
  /\ resp.message = "rowsSql"
  /\ req.q.country = USA /\ req.q.q = Kia /\ req.q.seats = Undef /\ req.q.hasImage = Undef
  /\ resp.items[1].where =
       <<[sql |-> "deleted_at IS NULL", ph |-> <<>>],
         [sql |-> "status = 'active'", ph |-> <<>>],
         [sql |-> "country_code = $", ph |-> <<1>>],
         [sql |-> "(title|make|model|city|area LIKE LOWER($))", ph |-> <<2, 2, 2, 2, 2>>]>>
  /\ resp.items[1].params = <<USA, LikePattern(Kia)>>

----------------------------------------------------------------------------
(* Two publishes of one record, running at once: each is its SELECT, then  *)
(* its UPDATE, and the store takes their statements in any order           *)

Publishing == "publishing"

\* One of the two calls: its route ("cars": PATCH /cars/:id/publish, "host":
\* POST /host/cars/:id/publish), its payload, where it stands, its reply
\* code, and the body it merged from the row it selected
Call(route, body) ==
  [route |-> route, body |-> body, pc |-> "start", code |-> 0, merged |-> body]

\* The two requests arrive
StartPublishes(id, uid, calls) ==
  /\ req' = Request("two publishes", id, uid, EmptyQuery, EmptyBody)
  /\ resp' = Reply(0, Publishing, calls, NoPage, <<>>, {})
  /\ UNCHANGED <<cars, now>>

\* WHERE of the SELECT and of the UPDATE of a publish
PublishWhere(route) ==
  IF route = "cars" THEN LiveIdWhere(req.id)
  ELSE OwnedIdWhere(req.id, getDbUserIdByFirebaseUid(req.uid))

Logged(p, stmt) == Append(resp.issued, [by |-> p, stmt |-> stmt])

\* Call p up to its await of the UPDATE: the checks of the route, the SELECT
\* of the row, and the merge of the stored features into the body
PublishSelect(p) ==
  LET call == resp.items[p]
      b == PublishWhere(call.route)
      found == Matching(cars, b.where, b.params)
      refused == IF call.route = "cars"
                 THEN normalizeStr(call.body.status) = Undef
                 ELSE ~getHostByUserId(getDbUserIdByFirebaseUid(req.uid))
      merged == IF call.route = "cars" THEN mergedBody(call.body, cars[req.id])
                ELSE [call.body EXCEPT !.features = nextFeatures(call.body, cars[req.id])]
  IN /\ resp.message = Publishing
     /\ call.pc = "start"
     /\ resp' =
          IF refused
          THEN [resp EXCEPT !.items[p].pc = "done",
                            !.items[p].code = IF call.route = "cars" THEN 400 ELSE 404]
          ELSE IF found = {}
          THEN [resp EXCEPT !.items[p].pc = "done", !.items[p].code = 404,
                            !.issued = Logged(p, "SELECT")]
          ELSE [resp EXCEPT !.items[p].pc = "selected", !.items[p].merged = merged,
                            !.issued = Logged(p, "SELECT")]
     /\ UNCHANGED <<cars, now, req>>

\* ... and from there on: the UPDATE and the reply
PublishUpdate(p) ==
  LET call == resp.items[p]
      b == PublishWhere(call.route)
      set == IF call.route = "cars"
             THEN [j \in 1..Len(cars) |->
                     PublishColumns(cars[j], normalizeStr(call.body.status),
                                    call.merged.features,
                                    denormCarColumnsFromBody(call.merged))]
             ELSE [j \in 1..Len(cars) |->
                     HostPublishColumns(cars[j], call.merged.features,
                                        hostDenormCarColumnsFromBody(call.merged))]
      res == ExecUpdate(b.where, b.params, set)
  IN /\ resp.message = Publishing
     /\ call.pc = "selected"
     /\ now < MaxClock
     /\ cars' = res.table
     /\ now' = now + 1
     /\ resp' = [resp EXCEPT !.items[p].pc = "done",
                             !.items[p].code =
                               IF res.ids = {} /\ call.route = "cars" THEN 404 ELSE 200,
                             !.issued = Logged(p, "UPDATE"),
                             !.ids = @ \cup res.ids]
     /\ UNCHANGED req

KiaFeatures == [EmptyFeatures EXCEPT !.vehicle.make = Kia]

RaceBodies ==
  {EmptyBody, StatusOnly(ACTIVE),
   [StatusOnly(ACTIVE) EXCEPT !.features = KiaFeatures],
   [StatusOnly(DRAFT) EXCEPT !.features = EmptyFeatures]}

RaceCalls ==
  {<<Call(r1, b1), Call(r2, b2)>> :
     r1 \in {"cars", "host"}, r2 \in {"cars", "host"}, b1 \in RaceBodies, b2 \in RaceBodies}

\* Both calls have replied
Replied == \A p \in 1..Len(resp.items) : resp.items[p].pc = "done"

RaceNext ==
  \/ resp = Idle /\ CreateCar(FullBody)
  \/ resp = Idle /\ HostCreate(1, HostBody)
  \/ resp = Idle /\ \E id \in CarIds, uid \in {1, 2}, calls \in RaceCalls :
                      StartPublishes(id, uid, calls)
  \/ \E p \in {1, 2} : PublishSelect(p)
  \/ \E p \in {1, 2} : PublishUpdate(p)
  \/ (resp.message = Publishing => Replied) /\ Close

RaceSpec == Init /\ [][RaceNext]_vars

\* The UPDATEs of the two calls that changed the row, in the order the store
\* took them
Updates == SelectSeq(resp.issued, LAMBDA e : e.stmt = "UPDATE" /\ req.id \in resp.ids)

\* C17: for two concurrent publishes of one record, in every interleaving of
\* their SELECT and UPDATE, the features bag stored at the end is the one
\* bound by the publish whose UPDATE the store executed last.
LastPublishWins ==
  (resp.message = Publishing /\ Replied /\ Updates # <<>>) =>
    cars[req.id].features = resp.items[Updates[Len(Updates)].by].merged.features

\* Both calls selected the row before either updated it; the second sent a
\* features bag and updated first, the first sent none and updated last:
\* the row keeps the bag the first call had read
StaleBagWins ==
  /\ resp.message = Publishing /\ Replied
  /\ resp.issued = <<[by |-> 1, stmt |-> "SELECT"], [by |-> 2, stmt |-> "SELECT"],
                     [by |-> 2, stmt |-> "UPDATE"], [by |-> 1, stmt |-> "UPDATE"]>>
  /\ resp.items[1].body.features = NoFeatures
  /\ resp.items[2].body.features = KiaFeatures
  /\ cars[req.id].features = ToyotaFeatures

(***************************************************************************)
(* Store failures.  A store call of a handler throws an error of the       *)
(* driver; the handler's catch block builds the response.  The statements  *)
(* issued up to and including the failed one are logged in resp.issued,    *)
(* and a failed statement changes no row.                                  *)
(***************************************************************************)
\* An error of the driver: detail and message, "" when absent or empty.
StoreErrors ==
  [detail : {"", "Key (vin)=(1HG) already exists."},
   message : {"", "duplicate key value violates unique constraint", "Connection terminated"}]

\* The store calls of a route's try block, in the order it awaits them.
Statements(op) ==
  CASE op = "GET /cars" -> <<"SELECT COUNT", "SELECT">>
    [] op = "GET /cars/map" -> <<"SELECT">>
    [] op = "GET /cars/:id" -> <<"SELECT">>
    [] op = "POST /cars" -> <<"INSERT">>
    [] op = "PATCH /cars/:id" -> <<"UPDATE">>
    [] op = "PATCH /cars/:id/publish" -> <<"SELECT", "UPDATE">>
    [] op = "DELETE /cars/:id" -> <<"UPDATE">>
    [] op = "POST /cars/:id/restore" -> <<"UPDATE">>
    [] op = "POST /host/cars" -> <<"SELECT users", "SELECT hosts", "INSERT">>
    [] op = "PATCH /host/cars/:id" -> <<"SELECT users", "UPDATE">>
    [] op = "POST /host/cars/:id/publish" ->
         <<"SELECT users", "SELECT hosts", "SELECT", "UPDATE">>
    [] op = "POST /host/cars/:id/publish (transaction)" ->
         <<"SELECT users", "BEGIN", "UPDATE", "UPDATE hosts", "COMMIT">>

CarsRoutes ==
  {"GET /cars", "GET /cars/map", "GET /cars/:id", "POST /cars", "PATCH /cars/:id",
   "PATCH /cars/:id/publish", "DELETE /cars/:id", "POST /cars/:id/restore"}

HostRoutes == {"PATCH /host/cars/:id", "POST /host/cars/:id/publish"}

\* The fixed text a route's catch block holds.
FailedText(op) ==
  CASE op \in CarsRoutes -> "Database query failed"
    [] op = "POST /host/cars" -> "Failed to create car."
    [] op = "PATCH /host/cars/:id" -> "Failed to update car."
    [] op = "POST /host/cars/:id/publish" -> "Failed to publish car."
    [] op = "POST /host/cars/:id/publish (transaction)" -> "Failed to publish car."

\* e?.detail || e?.message || text
DetailOrMessage(e, text) ==
  IF e.detail # "" THEN e.detail ELSE IF e.message # "" THEN e.message ELSE text

Failing(op, at, e) == [op |-> op, at |-> at, err |-> e]

sendDbError(err, issued) == Reply(500, "Database query failed", <<>>, NoPage, issued, {})

\* A cars route: catch (err) { return sendDbError(reply, err) }
CarsStoreFails(op, at, e) ==
  /\ resp = Idle
  /\ op \in CarsRoutes
  /\ at \in 1..Len(Statements(op))
  /\ req' = Failing(op, at, e)
  /\ resp' = sendDbError(e, SubSeq(Statements(op), 1, at))
  /\ UNCHANGED <<cars, now>>

\* PATCH /host/cars/:id and POST /host/cars/:id/publish: a fixed message.
HostStoreFails(op, at, e) ==
  /\ resp = Idle
  /\ op \in HostRoutes
  /\ at \in 1..Len(Statements(op))
  /\ req' = Failing(op, at, e)
  /\ resp' = Reply(500, FailedText(op), <<>>, NoPage, SubSeq(Statements(op), 1, at), {})
  /\ UNCHANGED <<cars, now>>

\* POST /host/cars: message: e?.detail || e?.message || "Failed to create car."
HostCreateStoreFails(at, e) ==
  LET op == "POST /host/cars"
  IN /\ resp = Idle
     /\ at \in 1..Len(Statements(op))
     /\ req' = Failing(op, at, e)
     /\ resp' = Reply(500, DetailOrMessage(e, "Failed to create car."), <<>>, NoPage,
                      SubSeq(Statements(op), 1, at), {})
     /\ UNCHANGED <<cars, now>>

\* The publish route that runs in a transaction: its catch block issues
\* ROLLBACK, then sends e?.detail || e?.message || "Failed to publish car."
HostPublishStoreFails(at, e) ==
  LET op == "POST /host/cars/:id/publish (transaction)"
  IN /\ resp = Idle
     /\ at \in 1..Len(Statements(op))
     /\ req' = Failing(op, at, e)
     /\ resp' = Reply(500, DetailOrMessage(e, "Failed to publish car."), <<>>, NoPage,
                      Append(SubSeq(Statements(op), 1, at), "ROLLBACK"), {})
     /\ UNCHANGED <<cars, now>>

FailNext ==
  \/ \E op \in CarsRoutes, at \in 1..2, e \in StoreErrors : CarsStoreFails(op, at, e)
  \/ \E op \in HostRoutes, at \in 1..4, e \in StoreErrors : HostStoreFails(op, at, e)
  \/ \E at \in 1..3, e \in StoreErrors : HostCreateStoreFails(at, e)
  \/ \E at \in 1..5, e \in StoreErrors : HostPublishStoreFails(at, e)
  \/ Close

FailSpec == Init /\ [][FailNext]_vars

\* The failed statement is the last data statement issued: nothing is issued
\* again after it except the ROLLBACK of the transaction.
NotReissued ==
  LET data == SelectSeq(resp.issued, LAMBDA s : s # "ROLLBACK")
  IN /\ Len(data) = req.at
     /\ data = SubSeq(Statements(req.op), 1, req.at)

\* C18: when a store call of a handler fails, the response is the fixed
\* generic error of the route, holds no content of the store error, and the
\* failed call is not issued again.
StoreFailureIsGeneric ==
  resp.code = 500 =>
    /\ resp.message = FailedText(req.op)
    /\ resp.items = <<>>
    /\ NotReissued

\* A failed INSERT of POST /host/cars whose error carries a detail.
HostCreateInsertFailed ==
  /\ resp.code = 500
  /\ req.op = "POST /host/cars"
  /\ req.at = 3
  /\ req.err.detail # ""

(***************************************************************************)
(* Writes addressed to a missing row: PATCH /cars/:id, PATCH               *)
(* /cars/:id/publish and DELETE /cars/:id on an id that was never inserted *)
(* or whose row is soft-deleted.                                           *)
(***************************************************************************)
MissingNext ==
  \/ resp = Idle /\ \E body \in {PlainBody, FullBody} : CreateCar(body)
  \/ resp = Idle /\ \E id \in CarIds, body \in UpdateBodies : UpdateCar(id, body)
  \/ resp = Idle /\ \E id \in CarIds, body \in PublishBodies : PublishCar(id, body)
  \/ resp = Idle /\ \E id \in CarIds : DeleteCar(id)
  \/ Close

MissingSpec == Init /\ [][MissingNext]_vars

AddressedWrites == {"PATCH /cars/:id", "PATCH /cars/:id/publish", "DELETE /cars/:id"}

\* The identifier resolves to a stored row whose deleted_at is null.
Resolves(id) == id \in DOMAIN cars /\ cars[id].deleted_at = Null

\* The payload passes the checks the route makes before it calls the store.
PassesValidation(request) ==
  CASE request.op = "PATCH /cars/:id" ->
         LET patch == sanitizeUpsert(request.body, FALSE)
         IN validateUpsertSanitized(patch, FALSE).ok /\ PatchKeys(patch) # {}
    [] request.op = "PATCH /cars/:id/publish" -> normalizeStr(request.body.status) # Undef
    [] request.op = "DELETE /cars/:id" -> TRUE

\* A request for one of the three writes is served on an id that does not resolve.
ServedOnMissing ==
  /\ resp = Idle
  /\ resp' # Idle
  /\ req'.op \in AddressedWrites
  /\ ~Resolves(req'.id)

\* C19: an update, publish or delete whose payload passes validation and
\* whose id does not resolve to a non-deleted row replies 404 "Car not found",
\* never 500, and leaves every stored row unchanged; one whose payload fails
\* validation is rejected with 400 and changes no row either.
MissingRowNotFound ==
  [][ServedOnMissing =>
       /\ cars' = cars
       /\ resp'.code = IF PassesValidation(req') THEN 404 ELSE 400
       /\ PassesValidation(req') => resp'.message = "Car not found"]_vars

\* Every update, publish or delete on an id that does not resolve replies 404
\* and leaves every stored row unchanged.
MissingRowAlwaysNotFound ==
  [][ServedOnMissing => cars' = cars /\ resp'.code = 404]_vars

\* An update naming a make was addressed to a soft-deleted row and replied 404.
DeletedRowUpdateRefused ==
  /\ req.op = "PATCH /cars/:id"
  /\ req.body.make = Kia
  /\ req.id \in DOMAIN cars
  /\ cars[req.id].deleted_at # Null
  /\ cars[req.id].make # Kia
  /\ resp.code = 404

(***************************************************************************)
(* buildWhere over filters whose structured fields hold text that is not a *)
(* number, and a hasImage that is neither "true" nor "false".              *)
(***************************************************************************)
NumericFields == {"seats", "yearMin", "yearMax", "minPrice", "maxPrice"}

\* Text that is not a number: letters, digits followed by a letter, blanks
JunkNumbers == {Unparseable, Str(<<"2", "0", "x">>), Blank}

JunkFlags == {Str(<<"y", "e", "s">>), Str(<<"T", "R", "U", "E">>), Str(<<"1">>)}

FilterQueries ==
  {[EmptyQuery EXCEPT !.seats = a, !.yearMin = b, !.yearMax = c, !.minPrice = d,
                      !.maxPrice = e, !.hasImage = f, !.city = g] :
     a \in {Undef, Unparseable, Text(5)},
     b \in {Undef, Str(<<"2", "0", "x">>), Text(2021)},
     c \in {Undef, Blank, Text(2019)},
     d \in {Undef, Unparseable, Text(50)},
     e \in {Undef, Unparseable, Text(40)},
     f \in {Undef, Str(TRUETEXT), Str(FALSETEXT)} \cup JunkFlags,
     g \in {Undef, Ajax}}

FilterInit ==
  /\ cars = <<>>
  /\ now = 1
  /\ req \in {Request("GET /cars", 0, 0, q, EmptyBody) : q \in FilterQueries}
  /\ resp = Idle

BuildFilter ==
  /\ resp = Idle
  /\ resp' = Value("buildWhere", buildWhere(req.q))
  /\ UNCHANGED <<cars, now, req>>

FilterNext == BuildFilter

FilterSpec == FilterInit /\ [][FilterNext]_vars

\* The filter with every unparseable structured field taken out.
Degraded(q) ==
  [key \in DOMAIN q |->
     IF key \in NumericFields /\ q[key] \in JunkNumbers THEN Undef
     ELSE IF key = "hasImage" /\ q[key] \in JunkFlags THEN Undef
     ELSE q[key]]

\* The text of the clauses a structured field can contribute.
ClausesOf(key) ==
  CASE key = "seats" -> {"seats = $"}
    [] key = "yearMin" -> {"year >= $", "year <= $"}
    [] key = "yearMax" -> {"year >= $", "year <= $"}
    [] key = "minPrice" -> {"price_per_day >= $", "price_per_day <= $"}
    [] key = "maxPrice" -> {"price_per_day >= $", "price_per_day <= $"}
    [] key = "hasImage" -> {"has_image = true AND image_public = true", "has_image = false"}

Partner(key) ==
  CASE key = "yearMin" -> "yearMax"
    [] key = "yearMax" -> "yearMin"
    [] key = "minPrice" -> "maxPrice"
    [] key = "maxPrice" -> "minPrice"
    [] OTHER -> key

\* C20: a structured filter field that cannot be parsed (seats, yearMin,
\* yearMax, minPrice, maxPrice that is not a number; hasImage other than
\* "true" and "false") adds no clause and no parameter, and the filter
\* compiles to what it compiles to with that field absent.
UnparseableFieldAbsent ==
  resp.message = "buildWhere" =>
    LET q == req.q
        built == resp.items[1]
        clear == Degraded(q)
    IN /\ built = buildWhere(clear)
       /\ Len(built.params) =
            Cardinality({key \in NumericFields \cup {"city"} : clear[key] # Undef})
       /\ \A key \in NumericFields \cup {"hasImage"} :
            (clear[key] = Undef /\ clear[Partner(key)] = Undef) =>
              \A j \in DOMAIN built.where : built.where[j].sql \notin ClausesOf(key)

\* Unparseable seats and hasImage beside an inverted, parseable year range
\* and a city: the three remaining fields are compiled, the range swapped.
JunkBesideRange ==
  /\ resp.message = "buildWhere"
  /\ req.q.seats = Unparseable
  /\ req.q.hasImage = Str(<<"y", "e", "s">>)
  /\ req.q.minPrice = Unparseable
  /\ req.q.maxPrice = Undef
  /\ req.q.yearMin = Text(2021)
  /\ req.q.yearMax = Text(2019)
  /\ req.q.city = Ajax
  /\ Len(resp.items[1].params) = 3
  /\ resp.items[1].params[2] = Num(2019)
  /\ resp.items[1].params[3] = Num(2021)

(***************************************************************************)
(* The placeholders of buildWhere and of the predicate GET /cars/map       *)
(* builds on top of it.                                                    *)
(***************************************************************************)
PlaceQueries ==
  {[Box(EmptyQuery) EXCEPT !.city = a, !.seats = b, !.yearMin = c, !.yearMax = d,
                           !.q = e, !.lat = f, !.lng = g, !.radiusKm = h, !.status = i] :
     a \in {Undef, Ajax}, b \in {Undef, Text(5)}, c \in {Undef, Text(2021)},
     d \in {Undef, Text(2019)}, e \in {Undef, Kia}, f \in {Undef, Text(1)},
     g \in {Undef, Text(2)}, h \in {Undef, Text(5)}, i \in {Undef, DRAFT}}

PlaceInit ==
  /\ cars = <<>>
  /\ now = 1
  /\ req \in {Request("GET /cars/map", 0, 0, q, EmptyBody) : q \in PlaceQueries}
  /\ resp = Idle

\* GET /cars/map up to its query: the clauses and the parameters
BuildMap ==
  /\ resp = Idle
  /\ mapBounds(req.q).ok
  /\ resp' = Value("mapWhere", mapWhere(req.q))
  /\ UNCHANGED <<cars, now, req>>

PlaceNext == BuildFilter \/ BuildMap

PlaceSpec == PlaceInit /\ [][PlaceNext]_vars

\* The placeholder numbers of the clauses, in the order the text names them
RECURSIVE Refs(_)
Refs(where) == IF where = <<>> THEN <<>> ELSE Head(where).ph \o Refs(Tail(where))

\* A sequence without the later repetitions of its elements
RECURSIVE FirstAppearances(_)
FirstAppearances(s) ==
  IF s = <<>> THEN <<>>
  ELSE LET front == FirstAppearances(SubSeq(s, 1, Len(s) - 1))
           last == s[Len(s)]
       IN IF \E j \in DOMAIN front : front[j] = last THEN front ELSE Append(front, last)

UpTo(n) == [k \in 1..n |-> k]

TermSql == "(title|make|model|city|area LIKE LOWER($))"
RadiusSql == "ST_DWithin(pickup, ($, $), $ * 1000.0)"

\* The values a clause is written to compare with, in the order its text
\* names them
Compared(sql, q) ==
  LET years == swapInverted(parseIntLike(q.yearMin), parseIntLike(q.yearMax))
      term == LikePattern(normalizeStr(q.q))
  IN CASE sql = "LOWER(city) LIKE LOWER($)" -> <<LikePattern(normalizeStr(q.city))>>
       [] sql = "status = $" -> <<normalizeStr(q.status)>>
       [] sql = "seats = $" -> <<Num(5)>>
       [] sql = "year >= $" -> <<years[1]>>
       [] sql = "year <= $" -> <<years[2]>>
       [] sql = TermSql -> <<term, term, term, term, term>>
       [] sql = "pickup_lat BETWEEN $ AND $" -> <<Num(-90), Num(90)>>
       [] sql = "pickup_lng BETWEEN $ AND $" -> <<parseNumber(q.minLng), parseNumber(q.maxLng)>>
       [] sql = RadiusSql -> <<Num(2), Num(1), Num(5)>>
       [] OTHER -> <<>>

\* Placeholder $k of every clause is bound to the k-th parameter, and the
\* free-text clause names one placeholder five times.
BoundInPlace(built, q) ==
  /\ \A j \in DOMAIN built.where :
       LET c == built.where[j]
       IN /\ \A k \in DOMAIN c.ph : c.ph[k] \in 1..Len(built.params)
          /\ [k \in DOMAIN c.ph |-> built.params[c.ph[k]]] = Compared(c.sql, q)
          /\ c.sql = TermSql => Len(c.ph) = 5 /\ \A k \in 1..5 : c.ph[k] = c.ph[1]
  /\ {Refs(built.where)[k] : k \in DOMAIN Refs(built.where)} = 1..Len(built.params)

WithoutRadius(where) == SelectSeq(where, LAMBDA c : c.sql # RadiusSql)

\* C21: the placeholders of the clauses are exactly $1..$n, n the number of
\* parameters, and $k is bound to the k-th parameter; the free-text term names
\* one placeholder in its five comparisons; in buildWhere and in the
\* bounding-box clauses they first appear in the order $1, $2, ...; the radius
\* clause of the map names the longitude placeholder, then the latitude
\* placeholder one below it, then the radius placeholder.
PlaceholdersBound ==
  resp.message \in {"buildWhere", "mapWhere"} =>
    LET built == resp.items[1]
        n == Len(built.params)
        rest == WithoutRadius(built.where)
    IN /\ BoundInPlace(built, req.q)
       /\ FirstAppearances(Refs(rest)) = UpTo(Len(FirstAppearances(Refs(rest))))
       /\ \A j \in DOMAIN built.where :
            built.where[j].sql = RadiusSql =>
              /\ j = Len(built.where)
              /\ built.where[j].ph = <<n - 1, n - 2, n>>

\* The placeholders first appear in the order $1..$n in every predicate,
\* that of the map with a radius included.
PlaceholdersInOrder ==
  resp.message \in {"buildWhere", "mapWhere"} =>
    /\ BoundInPlace(resp.items[1], req.q)
    /\ FirstAppearances(Refs(resp.items[1].where)) = UpTo(Len(resp.items[1].params))

\* A map predicate with a city, a free-text term and a radius: seven
\* parameters after the city and the term, the radius clause last.
RadiusPlaceholders ==
  /\ resp.message = "mapWhere"
  /\ req.q.city = Ajax /\ req.q.q = Kia /\ req.q.seats = Undef
  /\ req.q.yearMin = Undef /\ req.q.yearMax = Undef /\ req.q.status = Undef
  /\ Len(resp.items[1].params) = 9
  /\ Refs(resp.items[1].where) = <<1, 2, 2, 2, 2, 2, 3, 4, 5, 6, 8, 7, 9>>

(***************************************************************************)
(* Sorting and paging over a store of three active rows.  created_at is    *)
(* the store's clock at insertion; nothing keeps it unique, and two rows   *)
(* inserted at the same instant carry the same value.  is_popular and the  *)
(* ratings are written by other parts of the system.                       *)
(***************************************************************************)
SortRow(id, popular, rating, price, created, lat) ==
  [InsertedRow(id, Null, sanitizeUpsert(PlainBody, TRUE)) EXCEPT
     !.status = ACTIVE, !.is_popular = Bool(popular), !.rating = rating,
     !.price_per_day = Num(price), !.created_at = Num(created), !.updated_at = Num(created),
     !.pickup_lat = Num(lat), !.pickup_lng = Num(0)]

SortTables ==
  {<<SortRow(1, FALSE, Null, 10, 1, 0),
     SortRow(2, popular, rating, 10, created, 1),
     SortRow(3, FALSE, Null, price, 2, lat)>> :
     popular \in BOOLEAN, rating \in {Null, Num(4)}, created \in {1, 2},
     price \in {10, 20}, lat \in {0, 1}}

POPULAR == Str(<<"p", "o", "p", "u", "l", "a", "r">>)
PRICE_DESC == Str(<<"p", "r", "i", "c", "e", "_", "d", "e", "s", "c">>)

SortKeys ==
  {Undef, POPULAR, Str(<<"b", "o", "g", "u", "s">>), PRICE_DESC,
   Str(<<"p", "r", "i", "c", "e", "_", "a", "s", "c">>),
   Str(<<"r", "a", "t", "i", "n", "g", "_", "d", "e", "s", "c">>),
   Str(<<"n", "e", "w", "e", "s", "t">>)}

SortListQueries ==
  {[EmptyQuery EXCEPT !.sort = s, !.limit = l] : s \in SortKeys, l \in {Undef, Text(1), Text(2)}}

SortMapQueries ==
  {[Around(90, r) EXCEPT !.sort = s] : s \in SortKeys, r \in {Undef, Text(50)}}

SortInit ==
  /\ now = 3
  /\ cars \in SortTables
  /\ req = Request("", 0, 0, EmptyQuery, EmptyBody)
  /\ resp = Idle

\* The caller's next GET /cars of a walk through the pages: the same filter
\* and sort, offset advanced by limit; resp gathers the items of the pages
\* served so far and holds the page of the last one.
NextPage ==
  /\ resp.code = 200
  /\ req.op = "GET /cars"
  /\ resp.page.offset + resp.page.limit < resp.page.total
  /\ \E q \in {[req.q EXCEPT !.offset = Text(resp.page.offset + resp.page.limit)]} :
     \E w \in {buildWhere(q)} :
     \E items \in Select(cars, w.where, w.params, buildOrder(q.sort),
                         pageLimit(q, 20, 50), pageOffset(q)) :
       /\ req' = Request("GET /cars", 0, 0, q, EmptyBody)
       /\ resp' = [resp EXCEPT !.items = @ \o items,
                               !.page.offset = pageOffset(q),
                               !.bound.offset = pageOffset(q)]
  /\ UNCHANGED <<cars, now>>

SortNext ==
  \/ resp = Idle /\ \E q \in SortListQueries : ListCars("GET /cars", q)
  \/ resp = Idle /\ \E q \in SortMapQueries : MapCars(q)
  \/ NextPage
  \/ Close

SortSpec == SortInit /\ [][SortNext]_vars

\* r1 comes before r2 by popularity flag descending, then rating descending
\* with the rows without a rating last, then created-time descending
PopularBefore(r1, r2) ==
  LET rate(r) == IF r.rating_avg # Null THEN r.rating_avg ELSE r.rating
      rated(r) == rate(r) # Null
      sameRating == (rated(r1) = rated(r2)) /\ (rated(r1) => rate(r1).n = rate(r2).n)
  IN \/ r1.is_popular.n > r2.is_popular.n
     \/ /\ r1.is_popular.n = r2.is_popular.n
        /\ \/ rated(r1) /\ ~rated(r2)
           \/ rated(r1) /\ rated(r2) /\ rate(r1).n > rate(r2).n
           \/ sameRating /\ r1.created_at.n > r2.created_at.n

FirstPageOf(op) == resp.code = 200 /\ req.op = op /\ resp.bound.offset = 0

RadiusActive(q) ==
  ~IsNullish(parseNumber(q.lat)) /\ ~IsNullish(parseNumber(q.lng))
    /\ ~IsNullish(parseNumber(q.radiusKm))

\* C22: with the sort key absent or unknown the rows come in the order of
\* popular: popularity flag descending, then rating descending nulls last, then
\* created-time descending; with a radius the rows come by distance ascending
\* and, at equal distance, in the order of the requested key, so the distances
\* returned never decrease.
SortedAsAsked ==
  /\ (FirstPageOf("GET /cars") /\ req.q.sort \notin SortKeys \ {Undef, Str(<<"b", "o", "g", "u", "s">>)}) =>
       /\ \A a, b \in DOMAIN resp.items : a < b => ~PopularBefore(resp.items[b], resp.items[a])
       /\ buildOrder(req.q.sort) = buildOrder(POPULAR)
  /\ (FirstPageOf("GET /cars") /\ req.q.sort = POPULAR) =>
       \A a, b \in DOMAIN resp.items : a < b => ~PopularBefore(resp.items[b], resp.items[a])
  /\ (FirstPageOf("GET /cars/map") /\ RadiusActive(req.q)) =>
       \A a, b \in DOMAIN resp.items : a < b =>
         /\ resp.items[a].distance_km # Null
         /\ resp.items[a].distance_km.n <= resp.items[b].distance_km.n
         /\ resp.items[a].distance_km = resp.items[b].distance_km =>
              ~SortsBefore(buildOrder(req.q.sort), resp.items[b], resp.items[a])

\* A radius search sorted by price descending: the dearer of the two rows at
\* the centre first, the row one kilometre away last although it is popular.
NearestThenDearest ==
  /\ FirstPageOf("GET /cars/map")
  /\ RadiusActive(req.q)
  /\ req.q.sort = PRICE_DESC
  /\ cars[2].is_popular = Bool(TRUE)
  /\ [j \in DOMAIN resp.items |-> resp.items[j].id] = <<3, 1, 2>>

\* An unknown sort key served in the order of popular: the popular row first.
UnknownKeyPopularFirst ==
  /\ FirstPageOf("GET /cars")
  /\ req.q.sort = Str(<<"b", "o", "g", "u", "s">>)
  /\ Len(resp.items) = 3
  /\ resp.items[1].id = 2
  /\ resp.items[1].created_at.n < resp.items[2].created_at.n

WalkDone == resp.code = 200 /\ req.op = "GET /cars"
              /\ resp.page.offset + resp.page.limit >= resp.page.total

\* C23: the order of the matching rows is fixed by the sort key, so the pages
\* at offset 0, limit, 2 * limit, ... of one filter over an unchanged store
\* hold every matching row exactly once: no row twice, and none left out when
\* the last page has been served.
PagesPartitionRows ==
  (resp.code = 200 /\ req.op = "GET /cars") =>
    /\ \A a, b \in DOMAIN resp.items : a # b => resp.items[a].id # resp.items[b].id
    /\ WalkDone => {resp.items[j].id : j \in DOMAIN resp.items} = {1, 2, 3}

(***************************************************************************)
(* Fields that are absent from a payload in every shape: missing, null or  *)
(* blank at the top level, in the features sub-bag and in the fallback.    *)
(***************************************************************************)
AbsentBodies(base) ==
  {[base EXCEPT !.year = y, !.make = m, !.pickup_city = p] :
     y \in {Undef, Null, Str(<<>>), Num(2021)},
     m \in {Undef, Blank, Kia},
     p \in {Undef, Blank}}

AbsentNext ==
  \/ resp = Idle /\ CreateCar([PlainBody EXCEPT !.year = Num(2020), !.make = Honda])
  \/ resp = Idle /\ \E body \in AbsentBodies(EmptyBody) : UpdateCar(1, body)
  \/ resp = Idle /\ \E body \in AbsentBodies(StatusOnly(ACTIVE)) : PublishCar(1, body)
  \/ Close

AbsentSpec == Init /\ [][AbsentNext]_vars

ReconciledCols ==
  {"make", "model", "trim", "year", "body_type", "fuel_type",
   "pickup_city", "pickup_state", "pickup_country", "pickup_postal_code"}

\* Missing, null, or a string that is blank
IsAbsent(v) == IsNullish(v) \/ (v.k = "string" /\ trim(v.s) = <<>>)

\* The places of a payload with the features bag f that may hold column c
PlacesOf(c, body, f) ==
  <<body[c]>> \o
  (IF c \in {"make", "model", "trim", "year", "body_type", "fuel_type"}
   THEN <<f.vehicle[c]>> ELSE <<f.pickup[c]>>) \o
  (CASE c = "pickup_city" -> <<f.address.city, body.city>>
     [] c = "pickup_state" -> <<f.address.province, body.area, body.province>>
     [] c = "pickup_country" -> <<f.address.country_code, body.country_code>>
     [] c = "pickup_postal_code" -> <<f.address.postal_code>>
     [] OTHER -> <<>>)

AbsentEverywhere(c, body, f) ==
  \A j \in DOMAIN PlacesOf(c, body, f) : IsAbsent(PlacesOf(c, body, f)[j])

\* C24: a column whose field is absent from the payload in every shape has no
\* entry in the canonical map of an update, and a publish on a row whose
\* stored features do not hold it either leaves the stored column unchanged.
AbsentColumnUntouched ==
  [][\A c \in ReconciledCols :
       /\ (resp = Idle /\ req'.op = "PATCH /cars/:id"
             /\ AbsentEverywhere(c, req'.body, req'.body.features)) =>
            sanitizeUpsert(req'.body, FALSE)[c] = Undef
       /\ (resp = Idle /\ req'.op = "PATCH /cars/:id/publish" /\ resp'.code = 200
             /\ AbsentEverywhere(c, req'.body, req'.body.features)
             /\ AbsentEverywhere(c, req'.body, cars[req'.id].features)) =>
            cars'[req'.id][c] = cars[req'.id][c]]_vars

(***************************************************************************)
(* Text fields of an update: PATCH /cars/:id and PATCH /host/cars/:id with *)
(* one text field sent blank, empty, or padded with spaces.                *)
(***************************************************************************)
TextFields == {"title", "vehicle_type", "country_code", "city", "transmission", "fuel_type", "area"}

Padded == Str(<<" ", "K", "i", "a", " ">>)

TextBodies ==
  {[EmptyBody EXCEPT ![f] = v] : f \in TextFields, v \in {Blank, Str(<<>>), Padded}}

TextNext ==
  \/ resp = Idle /\ CreateCar(FullBody)
  \/ resp = Idle /\ HostCreate(1, HostBody)
  \/ resp = Idle /\ \E id \in CarIds, body \in TextBodies : UpdateCar(id, body)
  \/ resp = Idle /\ \E id \in CarIds, body \in TextBodies : HostUpdate(1, id, body)
  \/ Close

TextSpec == Init /\ [][TextNext]_vars

OptionalText == {"transmission", "fuel_type", "area"}
RequiredText == {"title", "vehicle_type", "country_code", "city"}

IsBlankText(v) == v.k = "string" /\ trim(v.s) = <<>>

UpdateApplied ==
  /\ resp = Idle
  /\ req'.op \in {"PATCH /cars/:id", "PATCH /host/cars/:id"}
  /\ resp'.code = 200

\* C25: an update trims every text field; an optional text field sent as a
\* string that is empty after trimming is written as null, and a field
\* required on update sent as such a string is written as the empty string.
BlankOptionalIsNull ==
  [][UpdateApplied =>
       /\ \A f \in OptionalText :
            IsBlankText(req'.body[f]) => cars'[req'.id][f] = Null
       /\ \A f \in RequiredText :
            IsBlankText(req'.body[f]) => cars'[req'.id][f] = Str(<<>>)
       /\ req'.body.title = Padded => cars'[req'.id].title = Kia
       /\ req'.body.area = Padded => cars'[req'.id].area = Kia]_vars

(***************************************************************************)
(* The image gallery of a listing.  A row that was inserted without a      *)
(* gallery holds NULL in image_gallery: the row has no such field.  A      *)
(* photo descriptor is [id, path, url, created_at].                        *)
(***************************************************************************)
Photo(id, path, url) == [id |-> id, path |-> path, url |-> url, created_at |-> 0]

\* The galleries a create or an update payload carries in image_gallery
Galleries ==
  LET photos == {Photo("a", "p", "u"), Photo("a", "q", "u"), Photo("b", "p", "u")}
  IN {<<>>} \cup {<<x>> : x \in photos} \cup {<<x, y>> : x \in photos, y \in photos}

\* The photos[] of a finalize request
PhotoLists ==
  LET photos == {Photo("a", "q", ""), Photo("b", "p", "u"), Photo("", "p", ""),
                 Photo("c", "", "")}
  IN {<<>>} \cup {<<x>> : x \in photos} \cup {<<x, y>> : x \in photos, y \in photos}

\* The public URL of an uploaded object (lib/gcs.js): one URL per path
gcsPublicUrl(path) == IF path = "p" THEN "https://storage/p" ELSE "https://storage/q"

\* car.image_gallery, [] when the column is NULL
GalleryOf(row) == IF "image_gallery" \in DOMAIN row THEN row.image_gallery ELSE <<>>

\* map.set(String(item.id), item): a known key keeps its place
MapSet(map, item) ==
  IF \E j \in DOMAIN map : map[j].id = item.id
  THEN [j \in DOMAIN map |-> IF map[j].id = item.id THEN item ELSE map[j]]
  ELSE Append(map, item)

RECURSIVE MapSetAll(_, _)
MapSetAll(map, items) ==
  IF items = <<>> THEN map ELSE MapSetAll(MapSet(map, Head(items)), Tail(items))

\* POST /host/cars with a payload that carries image_gallery
HostCreateGallery(uid, body, gallery) ==
  LET userId == getDbUserIdByFirebaseUid(uid)
      row == InsertedRow(Len(cars) + 1, userId, sanitizeCarCreate(body))
               @@ [image_gallery |-> gallery]
  IN /\ userId # Null
     /\ getHostByUserId(userId)
     /\ Len(cars) < MaxCars
     /\ now < MaxClock
     /\ req' = Request("POST /host/cars", 0, uid, EmptyQuery, body) @@ [gallery |-> gallery]
     /\ cars' = Append(cars, row)
     /\ now' = now + 1
     /\ resp' = Reply(201, "", <<row>>, NoPage,
                      <<"SELECT users", "SELECT hosts", "INSERT">>, {row.id})

\* PATCH /host/cars/:id with a payload whose image_gallery is an array
HostUpdateGallery(uid, id, gallery) ==
  LET userId == getDbUserIdByFirebaseUid(uid)
      b == OwnedIdWhere(id, userId)
      res == ExecUpdate(b.where, b.params,
               [j \in 1..Len(cars) |->
                  [image_gallery |-> gallery] @@ [cars[j] EXCEPT !.updated_at = Num(now)]])
  IN /\ req' = Request("PATCH /host/cars/:id", id, uid, EmptyQuery, EmptyBody)
                 @@ [gallery |-> gallery]
     /\ IF userId = Null
        THEN /\ resp' = Reply(404, "User not found", <<>>, NoPage, <<"SELECT users">>, {})
             /\ UNCHANGED <<cars, now>>
        ELSE IF res.ids = {}
        THEN /\ resp' = Reply(404, "Car not found (or not owned by you).", <<>>, NoPage,
                              <<"SELECT users", "UPDATE">>, {})
             /\ UNCHANGED <<cars, now>>
        ELSE /\ now < MaxClock
             /\ cars' = res.table
             /\ now' = now + 1
             /\ resp' = Reply(200, "", <<res.table[id]>>, NoPage,
                              <<"SELECT users", "UPDATE">>, res.ids)

\* POST /host/cars/:id/photos/finalize
HostFinalize(uid, id, photos) ==
  LET clean == SelectSeq([j \in DOMAIN photos |-> [photos[j] EXCEPT !.created_at = now]],
                         LAMBDA p : p.id # "" /\ p.path # "")
      userId == getDbUserIdByFirebaseUid(uid)
      b == OwnedIdWhere(id, userId)
      found == Matching(cars, b.where, b.params)
      existing == SelectSeq(GalleryOf(cars[id]), LAMBDA item : item.id # "")
      filled == [j \in DOMAIN clean |->
                   [clean[j] EXCEPT !.url = IF @ # "" THEN @ ELSE gcsPublicUrl(clean[j].path)]]
      merged == MapSetAll(MapSetAll(<<>>, existing), filled)
      coverUrl == IF merged[1].url # "" THEN merged[1].url ELSE gcsPublicUrl(merged[1].path)
      res == ExecUpdate(b.where, b.params,
               [j \in 1..Len(cars) |->
                  [image_gallery |-> merged, image_path |-> coverUrl]
                    @@ [cars[j] EXCEPT !.has_image = Bool(Len(merged) > 0),
                                       !.updated_at = Num(now)]])
  IN /\ req' = Request("POST /host/cars/:id/photos/finalize", id, uid, EmptyQuery, EmptyBody)
                 @@ [photos |-> photos]
     /\ IF clean = <<>>
        THEN /\ resp' = Reply(400, "photos[] is required", <<>>, NoPage, <<>>, {})
             /\ UNCHANGED <<cars, now>>
        ELSE IF userId = Null
        THEN /\ resp' = Reply(404, "User not found", <<>>, NoPage, <<"SELECT users">>, {})
             /\ UNCHANGED <<cars, now>>
        ELSE IF found = {}
        THEN /\ resp' = Reply(404, "Car not found (or not owned by you).", <<>>, NoPage,
                              <<"SELECT users", "SELECT">>, {})
             /\ UNCHANGED <<cars, now>>
        ELSE /\ now < MaxClock
             /\ cars' = res.table
             /\ now' = now + 1
             /\ resp' = Reply(200, "", <<res.table[id]>>, NoPage,
                              <<"SELECT users", "SELECT", "UPDATE">>, res.ids)

GalleryNext ==
  \/ resp = Idle /\ \E gallery \in Galleries : HostCreateGallery(1, HostBody, gallery)
  \/ resp = Idle /\ \E id \in CarIds, gallery \in Galleries : HostUpdateGallery(1, id, gallery)
  \/ resp = Idle /\ \E id \in CarIds, photos \in PhotoLists : HostFinalize(1, id, photos)
  \/ Close

GallerySpec == Init /\ [][GalleryNext]_vars

OnePerPhotoId(gallery) ==
  \A a, b \in DOMAIN gallery : a # b => gallery[a].id # gallery[b].id

\* C26: after any create, update or photo finalize the stored gallery of
\* every listing holds at most one descriptor per photo id, and a finalize
\* keeps every stored photo whose id is not among the finalized ones.
GalleryOnePerPhoto ==
  [][/\ \A j \in DOMAIN cars' : OnePerPhotoId(GalleryOf(cars'[j]))
     /\ (req'.op = "POST /host/cars/:id/photos/finalize" /\ resp'.code = 200) =>
          \A a \in DOMAIN GalleryOf(cars[req'.id]) :
            LET old == GalleryOf(cars[req'.id])[a]
            IN (\A p \in DOMAIN req'.photos : req'.photos[p].id # old.id) =>
                 \E k \in DOMAIN GalleryOf(cars'[req'.id]) : GalleryOf(cars'[req'.id])[k] = old]_vars

(***************************************************************************)
(* The host routes of user.ts, each scoped to the row of users that the    *)
(* authenticated uid resolves to.                                          *)
(***************************************************************************)
\* features->'bag'->>'key': the text of a JSON value, NULL when missing or null
JsonText(v) == IF IsNullish(v) THEN Null ELSE IF v.k = "string" THEN v ELSE Str(String(v))

\* (features->'vehicle'->>'year')::int raises an error on text that is not an integer
YearCastFails(row) ==
  JsonText(row.features.vehicle.year) # Null
    /\ StringToNumber(JsonText(row.features.vehicle.year).s).k # "number"

\* The select list of GET /host/cars and GET /host/cars/:id:
\* COALESCE(NULLIF(column, ''), features->...->>'column') AS column
HostView(row) ==
  LET text(column, v) == IF NullIfEmpty(column) # Null THEN column ELSE JsonText(v)
      vehicle == row.features.vehicle
      pickup == row.features.pickup
      year == IF JsonText(vehicle.year) = Null THEN Null
              ELSE StringToNumber(JsonText(vehicle.year).s)
  IN [row EXCEPT
        !.make = text(@, vehicle.make),
        !.model = text(@, vehicle.model),
        !.trim = text(@, vehicle.trim),
        !.year = IF @ # Null THEN @ ELSE IF year = Num(0) THEN Null ELSE year,
        !.body_type = text(@, vehicle.body_type),
        !.fuel_type = text(@, vehicle.fuel_type),
        !.pickup_city = text(@, pickup.pickup_city),
        !.pickup_state = text(@, pickup.pickup_state),
        !.pickup_country = text(@, pickup.pickup_country),
        !.pickup_postal_code = text(@, pickup.pickup_postal_code)]

\* WHERE host_user_id = $1 AND deleted_at IS NULL
OwnedWhere(userId) ==
  PushLit(PushParam(NewBuilder, "host_user_id = $", userId), "deleted_at IS NULL")

\* GET /host/cars
HostList(uid, q) ==
  LET userId == getDbUserIdByFirebaseUid(uid)
      limit == clampInt(Number(Coalesce(q.limit, Num(20))).n, 1, 100)
      offset == clampInt(Number(Coalesce(q.offset, Num(0))).n, 0, 1000000)
      b == OwnedWhere(userId)
      hit == Matching(cars, b.where, b.params)
  IN /\ req' = Request("GET /host/cars", 0, uid, q, EmptyBody)
     /\ UNCHANGED <<cars, now>>
     /\ IF userId = Null
        THEN resp' = Reply(404, "User not found", <<>>, NoPage, <<"SELECT users">>, {})
        ELSE IF ~getHostByUserId(userId)
        THEN resp' = Reply(404, "HOST_NOT_FOUND", <<>>, NoPage,
                           <<"SELECT users", "SELECT hosts">>, {})
        ELSE IF \E j \in hit : YearCastFails(cars[j])
        THEN resp' = Reply(500, "Failed to load host cars.", <<>>, NoPage,
                           <<"SELECT users", "SELECT hosts", "SELECT">>, {})
        ELSE \E rows \in Select(cars, b.where, b.params, <<"updated_at DESC">>, limit, offset) :
               resp' = Reply(200, "", [j \in DOMAIN rows |-> HostView(rows[j])],
                             [limit |-> limit, offset |-> offset, total |-> Cardinality(hit)],
                             <<"SELECT users", "SELECT hosts", "SELECT", "SELECT COUNT">>,
                             IdsOf(rows))

\* GET /host/cars/:id
HostGet(uid, id) ==
  LET userId == getDbUserIdByFirebaseUid(uid)
      b == OwnedIdWhere(id, userId)
      hit == Matching(cars, b.where, b.params)
  IN /\ req' = Request("GET /host/cars/:id", id, uid, EmptyQuery, EmptyBody)
     /\ UNCHANGED <<cars, now>>
     /\ IF userId = Null
        THEN resp' = Reply(404, "User not found", <<>>, NoPage, <<"SELECT users">>, {})
        ELSE IF ~getHostByUserId(userId)
        THEN resp' = Reply(404, "HOST_NOT_FOUND", <<>>, NoPage,
                           <<"SELECT users", "SELECT hosts">>, {})
        ELSE IF \E j \in hit : YearCastFails(cars[j])
        THEN resp' = Reply(500, "Failed to load car.", <<>>, NoPage,
                           <<"SELECT users", "SELECT hosts", "SELECT">>, {})
        ELSE IF hit = {}
        THEN resp' = Reply(404, "Car not found (or not owned by you).", <<>>, NoPage,
                           <<"SELECT users", "SELECT hosts", "SELECT">>, {})
        ELSE resp' = Reply(200, "", <<HostView(cars[id])>>, NoPage,
                           <<"SELECT users", "SELECT hosts", "SELECT">>, hit)

\* UPDATE cars SET status = ..., updated_at = now()
\* WHERE id = $1 AND host_user_id = $2 AND deleted_at IS NULL
HostSetStatus(op, uid, id, status, issued) ==
  LET userId == getDbUserIdByFirebaseUid(uid)
      b == OwnedIdWhere(id, userId)
      res == ExecUpdate(b.where, b.params,
               [j \in 1..Len(cars) |->
                  [cars[j] EXCEPT !.status = status, !.updated_at = Num(now)]])
  IN /\ req' = Request(op, id, uid, EmptyQuery, EmptyBody)
     /\ IF userId = Null
        THEN /\ resp' = Reply(404, "User not found", <<>>, NoPage, <<"SELECT users">>, {})
             /\ UNCHANGED <<cars, now>>
        ELSE IF res.ids = {}
        THEN /\ resp' = Reply(404, "Car not found (or not owned by you).", <<>>, NoPage,
                              SubSeq(issued, 1, 2), {})
             /\ UNCHANGED <<cars, now>>
        ELSE /\ now < MaxClock
             /\ cars' = res.table
             /\ now' = now + 1
             /\ resp' = Reply(200, "", <<res.table[id]>>, NoPage, issued, res.ids)

\* DELETE /host/cars/:id: the row is marked inactive
HostDelete(uid, id) ==
  HostSetStatus("DELETE /host/cars/:id", uid, id, INACTIVE, <<"SELECT users", "SELECT", "UPDATE">>)

\* POST /host/cars/:id/activate
HostActivate(uid, id) ==
  HostSetStatus("POST /host/cars/:id/activate", uid, id, ACTIVE, <<"SELECT users", "UPDATE">>)

\* POST /host/cars/:id/unpublish
HostUnpublish(uid, id) ==
  HostSetStatus("POST /host/cars/:id/unpublish", uid, id, DRAFT, <<"SELECT users", "UPDATE">>)

\* A payload that names another user as the owner
OwnedBy(body, userId) == body @@ [host_user_id |-> Num(userId), user_id |-> Num(userId)]

ScopeUids == {1, 2, 3}

ScopeNext ==
  \/ resp = Idle /\ \E uid \in ScopeUids : HostList(uid, EmptyQuery)
  \/ resp = Idle /\ \E uid \in ScopeUids, id \in CarIds : HostGet(uid, id)
  \/ resp = Idle /\ \E uid \in ScopeUids, owner \in {1, 2} :
                      HostCreate(uid, OwnedBy(HostBody, owner))
  \/ resp = Idle /\ \E uid \in ScopeUids, id \in CarIds, owner \in {1, 2} :
                      HostUpdate(uid, id, OwnedBy([EmptyBody EXCEPT !.make = Kia], owner))
  \/ resp = Idle /\ \E uid \in ScopeUids, id \in CarIds : HostDelete(uid, id)
  \/ resp = Idle /\ \E uid \in ScopeUids, id \in CarIds : HostActivate(uid, id)
  \/ resp = Idle /\ \E uid \in ScopeUids, id \in CarIds :
                      HostPublish(uid, id, OwnedBy(StatusOnly(ACTIVE), 3 - uid))
  \/ resp = Idle /\ \E uid \in ScopeUids, id \in CarIds : HostUnpublish(uid, id)
  \/ resp = Idle /\ \E uid \in ScopeUids, id \in CarIds :
                      HostFinalize(uid, id, <<Photo("a", "p", "")>>)
  \/ Close

ScopeSpec == Init /\ [][ScopeNext]_vars

\* C27: an operation of a host route by user A leaves every car owned by
\* another user unchanged, returns only cars owned by A, and a car it creates
\* is owned by A whatever owner the payload names.
HostOperationsScoped ==
  [][(resp = Idle /\ resp' # Idle) =>
       LET userId == getDbUserIdByFirebaseUid(req'.uid)
       IN /\ \A j \in DOMAIN cars : cars[j].host_user_id # userId => cars'[j] = cars[j]
          /\ \A j \in DOMAIN cars' \ DOMAIN cars : cars'[j].host_user_id = userId
          /\ \A j \in DOMAIN resp'.items : resp'.items[j].host_user_id = userId]_vars

\* User 1 asked to update and to read the car of user 2, naming itself as
\* the owner, and was told the car was not found; the car is as it was.
ForeignCarRefused ==
  /\ req.op = "PATCH /host/cars/:id"
  /\ req.uid = 1
  /\ req.body.host_user_id = Num(1)
  /\ req.id \in DOMAIN cars
  /\ cars[req.id].host_user_id = Num(2)
  /\ cars[req.id].make # Kia
  /\ resp.code = 404

(***************************************************************************)
(* Soft delete and restore of cars.ts, beside the writes and reads that    *)
(* pass over rows marked deleted.                                          *)
(***************************************************************************)
LifeNext ==
  \/ resp = Idle /\ \E status \in {ACTIVE, DRAFT} :
                      CreateCar([PlainBody EXCEPT !.status = status])
  \/ resp = Idle /\ \E id \in CarIds : UpdateCar(id, StatusOnly(DRAFT))
  \/ resp = Idle /\ \E id \in CarIds : PublishCar(id, StatusOnly(ACTIVE))
  \/ resp = Idle /\ \E id \in CarIds : DeleteCar(id)
  \/ resp = Idle /\ \E id \in CarIds : RestoreCar(id)
  \/ resp = Idle /\ ListCars("GET /cars", EmptyQuery)
  \/ Close

LifeSpec == Init /\ [][LifeNext]_vars

\* Every column of the row but deleted_at and updated_at
Kept(row) == [f \in DOMAIN row \ {"deleted_at", "updated_at"} |-> row[f]]

\* C28: a delete and a restore change deleted_at and updated_at of the row
\* and nothing else, no other operation changes a deleted row, so a restore
\* after a delete gives back every other column; the default list shows the
\* rows that are not deleted and active; a delete of a deleted row and a
\* restore of a live row reply 404 and change nothing.
SoftDeleteRoundTrip ==
  [][(resp = Idle /\ resp' # Idle) =>
       /\ \A j \in DOMAIN cars :
            /\ Kept(cars'[j]) # Kept(cars[j]) => cars[j].deleted_at = Null
            /\ cars[j].deleted_at # Null /\ cars'[j] # cars[j] =>
                 /\ req'.op = "POST /cars/:id/restore"
                 /\ req'.id = j
                 /\ cars'[j].deleted_at = Null
       /\ req'.op = "DELETE /cars/:id" /\ req'.id \in DOMAIN cars =>
            IF cars[req'.id].deleted_at = Null
            THEN /\ resp'.code = 200
                 /\ cars'[req'.id].deleted_at # Null
                 /\ Kept(cars'[req'.id]) = Kept(cars[req'.id])
            ELSE resp'.code = 404 /\ cars' = cars
       /\ req'.op = "POST /cars/:id/restore" /\ req'.id \in DOMAIN cars =>
            IF cars[req'.id].deleted_at # Null
            THEN /\ resp'.code = 200
                 /\ cars'[req'.id].deleted_at = Null
                 /\ Kept(cars'[req'.id]) = Kept(cars[req'.id])
            ELSE resp'.code = 404 /\ cars' = cars
       /\ req'.op \in {"DELETE /cars/:id", "POST /cars/:id/restore"}
            /\ req'.id \notin DOMAIN cars => resp'.code = 404 /\ cars' = cars
       /\ req'.op = "GET /cars" =>
            IdsOf(resp'.items) = {j \in DOMAIN cars : cars[j].deleted_at = Null
                                                         /\ cars[j].status = ACTIVE}]_vars

\* An active row that was deleted has just been restored
RestoredAfterDelete ==
  /\ req.op = "POST /cars/:id/restore"
  /\ resp.code = 200
  /\ cars[req.id].deleted_at = Null
  /\ cars[req.id].status = ACTIVE
  /\ cars[req.id].updated_at.n > cars[req.id].created_at.n + 1

(***************************************************************************)
(* A publish and a DELETE /cars/:id of the same record running at once:    *)
(* the store may take the delete between the publish's SELECT and UPDATE.  *)
(***************************************************************************)
\* DELETE /cars/:id as call p of the two: its UPDATE and its reply
DeleteDuring(p) ==
  LET call == resp.items[p]
      b == LiveIdWhere(req.id)
      res == ExecUpdate(b.where, b.params,
               [j \in 1..Len(cars) |->
                  [cars[j] EXCEPT !.deleted_at = Num(now), !.updated_at = Num(now)]])
  IN /\ resp.message = Publishing
     /\ call.pc = "start"
     /\ now < MaxClock
     /\ cars' = res.table
     /\ now' = now + 1
     /\ resp' = [resp EXCEPT !.items[p].pc = "done",
                             !.items[p].code = IF res.ids = {} THEN 404 ELSE 200,
                             !.issued = Logged(p, "UPDATE")]
     /\ UNCHANGED req

\* A publish as call 1 and a delete as call 2
DeleteRaceCalls ==
  {<<Call(route, body), Call("delete", EmptyBody)>> :
     route \in {"cars", "host"},
     body \in {StatusOnly(ACTIVE), [StatusOnly(ACTIVE) EXCEPT !.features = KiaFeatures]}}

DeleteRaceNext ==
  \/ resp = Idle /\ CreateCar(FullBody)
  \/ resp = Idle /\ HostCreate(1, HostBody)
  \/ resp = Idle /\ \E id \in CarIds, uid \in {1, 2}, calls \in DeleteRaceCalls :
                      StartPublishes(id, uid, calls)
  \/ PublishSelect(1)
  \/ PublishUpdate(1)
  \/ DeleteDuring(2)
  \/ (resp.message = Publishing => Replied) /\ Close

DeleteRaceSpec == Init /\ [][DeleteRaceNext]_vars

\* The step is the UPDATE of a publish that selected the row before the
\* delete took effect
UpdateAfterDelete ==
  /\ resp.message = Publishing
  /\ resp.items[1].pc = "selected"
  /\ resp'.message = Publishing
  /\ resp'.items[1].pc = "done"
  /\ cars[req.id].deleted_at # Null

\* C29: when a soft delete takes effect between the SELECT and the UPDATE of
\* a publish, the publish replies 404 and leaves the row as the delete left
\* it; a publish that replies 200 has updated the row.
PublishAfterDeleteNotFound ==
  [][UpdateAfterDelete =>
       /\ resp'.items[1].code = 404
       /\ cars'[req.id] = cars[req.id]]_vars

(***************************************************************************)
(* An update that writes one reconciled column from a top-level value,     *)
(* followed by a publish that carries a status and nothing else.           *)
(***************************************************************************)
\* The value the updates of this specification write to column c; no create
\* writes it
Mark(c) == IF c = "year" THEN Num(2021) ELSE Kia

MarkBodies == {[EmptyBody EXCEPT ![c] = Mark(c)] : c \in ReconciledCols}

KeepNext ==
  \/ resp = Idle /\ \E body \in {PlainBody, NestedBody} : CreateCar(body)
  \/ resp = Idle /\ HostCreate(1, HostBody)
  \/ resp = Idle /\ \E id \in CarIds, body \in MarkBodies : UpdateCar(id, body)
  \/ resp = Idle /\ \E id \in CarIds, body \in MarkBodies : HostUpdate(1, id, body)
  \/ resp = Idle /\ \E id \in CarIds : PublishCar(id, StatusOnly(ACTIVE))
  \/ resp = Idle /\ \E id \in CarIds : HostPublish(1, id, StatusOnly(ACTIVE))
  \/ Close

KeepSpec == Init /\ [][KeepNext]_vars

PublishRoutes == {"PATCH /cars/:id/publish", "POST /host/cars/:id/publish"}

\* C30: a reconciled column that holds the value an update wrote from the
\* top level of its payload still holds it after a publish that supplies
\* only a status, whatever the stored features hold.
UpdatedColumnSurvivesPublish ==
  [][(resp = Idle /\ req'.op \in PublishRoutes /\ resp'.code = 200) =>
       \A c \in ReconciledCols :
         cars[req'.id][c] = Mark(c) => cars'[req'.id][c] = Mark(c)]_vars

============================================================================
